---------------------------- MODULE Spec2Model ----------------------------
(***************************************************************************)
(* A model of the review browser of MoulikRT/review_scraper: the Reviews   *)
(* component (filter engine, override precedence, sorting), and the        *)
(* ReviewGrouping, CalendarView, Collections and AdvancedSearch components *)
(* it mounts.                                                              *)
(*                                                                         *)
(* JavaScript strings are sequences of one-character strings, so that      *)
(* lower-casing, trimming, substring search, the reply-marker regular      *)
(* expression, parseInt and the edit distance are computed as the code     *)
(* computes them.  A nullable value is a sequence of length at most one:   *)
(* Null is <<>>, and a present value x is <<x>>.                           *)
(***************************************************************************)
EXTENDS Integers, Sequences, FiniteSets, TLC

VARIABLES
  reviews,                  \* App.jsx: the corpus handed to Reviews as a prop
  now,                      \* the clock `new Date()` reads, in ticks
  sortBy,                   \* Reviews state
  filterRating,             \* Reviews state (legacy rating filter)
  advancedFilters,          \* Reviews state: Null or the applied filter spec
  showGrouping,             \* Reviews state
  groupedReviews,           \* Reviews state: Null or the selected group's members
  showCalendar,             \* Reviews state
  selectedDateReviews,      \* Reviews state: Null or the selected day's members
  collectionReviews,        \* Reviews state: Null or the loaded collection's members
  showCollections,          \* Reviews state
  filteredAndSortedReviews, \* Reviews memo: the displayed sequence
  search,                   \* AdvancedSearch state: the form's field values
  groupingMode,             \* ReviewGrouping state
  similarityThreshold,      \* ReviewGrouping state
  collections,              \* Collections state, loaded from localStorage
  activeTab,                \* App state: "reviews" or "dashboard"
  chartData,                \* Dashboard memo: Null while Dashboard is not mounted
  summary,                  \* the clipboard: Null or the copied metrics summary
  selectedReviews,          \* Reviews state: the source_urls of the ticked reviews
  showCreateForm,           \* Collections state
  collectionName,           \* Collections state: the name typed into the form
  savedSearches,            \* AdvancedSearch state, loaded from localStorage
  dateRangeRef,             \* which object AdvancedSearch's dateRange state is
  thrown                    \* "" or what threw an error: "handler" or "render"

vars == <<reviews, now, sortBy, filterRating, advancedFilters, showGrouping,
          groupedReviews, showCalendar, selectedDateReviews, collectionReviews,
          showCollections, filteredAndSortedReviews, search, groupingMode,
          similarityThreshold, collections, activeTab, chartData, summary,
          selectedReviews, showCreateForm, collectionName, savedSearches,
          dateRangeRef, thrown>>

-----------------------------------------------------------------------------
(* Bounds of the model.                                                    *)

\* Length of the corpus the Reviews component is started with.
MaxReviews == 3

\* Longest review sequence ReviewGrouping is tried on by itself.
MaxGroupInput == 4

-----------------------------------------------------------------------------
(* Strings.                                                                *)

Null == <<>>

Some(x) == <<x>>

\* `p || d` on a nullable value.
OrElse(p, d) == IF p # Null THEN p[1] ELSE d

Min(a, b) == IF a <= b THEN a ELSE b

Max(a, b) == IF a >= b THEN a ELSE b

\* The least element of a set of positions, 0 for the empty set.
FirstOf(S) == IF S = {} THEN 0 ELSE CHOOSE x \in S : \A y \in S : x <= y

\* The greatest element of a set of positions, 0 for the empty set.
LastOf(S) == IF S = {} THEN 0 ELSE CHOOSE x \in S : \A y \in S : x >= y

UpperChars ==
  <<"A","B","C","D","E","F","G","H","I","J","K","L","M",
    "N","O","P","Q","R","S","T","U","V","W","X","Y","Z">>

LowerChars ==
  <<"a","b","c","d","e","f","g","h","i","j","k","l","m",
    "n","o","p","q","r","s","t","u","v","w","x","y","z">>

Digits == <<"0","1","2","3","4","5","6","7","8","9">>

\* The lower-case letter of each upper-case letter, and the converse.
LowerOf ==
  [c \in {UpperChars[i] : i \in 1..26} |->
     LowerChars[CHOOSE i \in 1..26 : UpperChars[i] = c]]

UpperOf ==
  [c \in {LowerChars[i] : i \in 1..26} |->
     UpperChars[CHOOSE i \in 1..26 : LowerChars[i] = c]]

\* The character c mapped through the table, or c itself.
MapChar(table, c) == IF c \in DOMAIN table THEN table[c] ELSE c

\* String.prototype.toLowerCase
toLowerCase(s) == [i \in 1..Len(s) |-> MapChar(LowerOf, s[i])]

\* String.prototype.toUpperCase
toUpperCase(s) == [i \in 1..Len(s) |-> MapChar(UpperOf, s[i])]

\* The characters \s matches and trim() strips.
IsSpace(c) == c \in {" ", "\t", "\n", "\r"}

\* pat occurs in s at position i (1-based).
StartsWithAt(s, i, pat) ==
  /\ i >= 1
  /\ i + Len(pat) - 1 <= Len(s)
  /\ \A k \in 1..Len(pat) : s[i + k - 1] = pat[k]

\* String.prototype.includes
includes(s, pat) == \E i \in 1..(Len(s) + 1) : StartsWithAt(s, i, pat)

\* String.prototype.substring(0, n) for 0 <= n
substring0(s, n) == SubSeq(s, 1, Min(n, Len(s)))

\* Length of the longest run of white space in s that starts at position i.
RECURSIVE SpaceRun(_, _)
SpaceRun(s, i) ==
  IF i >= 1 /\ i <= Len(s) /\ IsSpace(s[i]) THEN 1 + SpaceRun(s, i + 1) ELSE 0

\* The last position at or before n that holds no white space, or 0.
RECURSIVE LastNonSpace(_, _)
LastNonSpace(s, n) ==
  IF n >= 1 /\ IsSpace(s[n]) THEN LastNonSpace(s, n - 1) ELSE n

\* String.prototype.trim
trim(s) == SubSeq(s, SpaceRun(s, 1) + 1, LastNonSpace(s, Len(s)))

\* s has a decimal digit at position i.
IsDigitAt(s, i) == i >= 1 /\ i <= Len(s) /\ \E d \in 1..10 : Digits[d] = s[i]

\* The last position of the run of digits that starts at position i, or
\* i - 1 when there is none.
RECURSIVE DigitRunEnd(_, _)
DigitRunEnd(s, i) == IF IsDigitAt(s, i) THEN DigitRunEnd(s, i + 1) ELSE i - 1

\* The number the digits at positions i..j of s read, after acc.
RECURSIVE DigitsValue(_, _, _, _)
DigitsValue(s, i, j, acc) ==
  IF i > j THEN acc
  ELSE DigitsValue(s, i + 1, j,
                   10 * acc + (CHOOSE d \in 1..10 : Digits[d] = s[i]) - 1)

\* The digits that start at position i, read as a number; Null for NaN.
NumberAt(s, i) ==
  IF IsDigitAt(s, i) THEN Some(DigitsValue(s, i, DigitRunEnd(s, i), 0)) ELSE Null

\* -n on the result of NumberAt.
Negated(p) == IF p = Null THEN Null ELSE Some(0 - p[1])

\* parseInt from position start on, the leading white space skipped: an
\* optional sign, then the longest run of digits.
ParseIntFrom(s, start) ==
  IF start <= Len(s) /\ s[start] = "-" THEN Negated(NumberAt(s, start + 1))
  ELSE IF start <= Len(s) /\ s[start] = "+" THEN NumberAt(s, start + 1)
  ELSE NumberAt(s, start)

\* parseInt; Null stands for NaN.
parseInt(s) == ParseIntFrom(s, SpaceRun(s, 1) + 1)

\* `x || 0` on a number: NaN and 0 both give 0.
OrZero(p) == IF p = Null THEN 0 ELSE p[1]

\* Decimal digits of a natural number, as in a template literal.
RECURSIVE NatToString(_)
NatToString(n) ==
  IF n < 10 THEN <<Digits[n + 1]>>
  ELSE NatToString(n \div 10) \o <<Digits[(n % 10) + 1]>>

\* String.prototype.split on a one-character separator: SplitAt is given the
\* position of the first separator, or 0.
RECURSIVE split(_, _)
RECURSIVE SplitAt(_, _, _)
SplitAt(s, sep, i) ==
  IF i = 0 THEN <<s>>
  ELSE <<SubSeq(s, 1, i - 1)>> \o split(SubSeq(s, i + 1, Len(s)), sep)

split(s, sep) == SplitAt(s, sep, FirstOf({i \in 1..Len(s) : s[i] = sep}))

\* Array.prototype.filter on a sequence, by the set of kept positions.
RECURSIVE FilterFrom(_, _, _)
FilterFrom(s, keep, k) ==
  IF k > Len(s) THEN <<>>
  ELSE IF k \in keep THEN <<s[k]>> \o FilterFrom(s, keep, k + 1)
  ELSE FilterFrom(s, keep, k + 1)

FilterAt(s, keep) == FilterFrom(s, keep, 1)

-----------------------------------------------------------------------------
(* The reply marker /Reply\s+from\s+Fiverr?[:\s]/i, on a lower-cased text. *)
(* Each \s+ is followed by a letter, so it takes the whole run of white    *)
(* space; the optional r is followed by a character that is not r, so both *)
(* readings of r? are tried.                                               *)

\* [:\s] at position j.
ReplySepAt(l, j) == j <= Len(l) /\ (l[j] = ":" \/ IsSpace(l[j]))

\* Fiverr?[:\s] at position v.
FiverAt(l, v) ==
  /\ StartsWithAt(l, v, <<"f","i","v","e","r">>)
  /\ \/ ReplySepAt(l, v + 5)
     \/ (v + 5 <= Len(l) /\ l[v + 5] = "r" /\ ReplySepAt(l, v + 6))

\* from\s+Fiverr?[:\s] at position f.
FromAt(l, f) ==
  /\ StartsWithAt(l, f, <<"f","r","o","m">>)
  /\ SpaceRun(l, f + 4) >= 1
  /\ FiverAt(l, f + 4 + SpaceRun(l, f + 4))

\* The whole pattern at position i.
ReplyPatternAt(l, i) ==
  /\ StartsWithAt(l, i, <<"r","e","p","l","y">>)
  /\ SpaceRun(l, i + 5) >= 1
  /\ FromAt(l, i + 5 + SpaceRun(l, i + 5))

\* The 0-based index of the first match in the lower-cased text l, or -1.
SearchLowered(l) == FirstOf({i \in 1..Len(l) : ReplyPatternAt(l, i)}) - 1

\* text.search(replyPattern)
searchReplyPattern(s) == SearchLowered(toLowerCase(s))

-----------------------------------------------------------------------------
(* Dates.  An instant is a number of ticks since the epoch, TicksPerDay    *)
(* ticks to a day; the epoch itself, tick 0, is what parseDate returns for *)
(* a date it cannot read.  The days of the model are numbered from the     *)
(* epoch's day 0, with Oct N, 2025 as day N and the days before October    *)
(* 2025 counted back from there (Dec 30, 2024 is day -274); local time is  *)
(* UTC.                                                                    *)

TicksPerDay == 2

\* The day the clock starts in.
StartDay == 6

Epoch == 0

\* What the Date constructor makes of a string: the strings it can read,
\* with the day it gives; every other string is an Invalid Date.
DateConstructor ==
  << [string |-> <<"D","e","c"," ","3","0",","," ","2","0","2","4">>, day |-> -274],
     [string |-> <<"O","c","t"," ","3",","," ","2","0","2","5">>, day |-> 3],
     [string |-> <<"O","c","t"," ","5",","," ","2","0","2","5">>, day |-> 5],
     [string |-> <<"2","0","2","5","-","1","0","-","0","3">>, day |-> 3],
     [string |-> <<"2","0","2","5","-","1","0","-","0","4">>, day |-> 4],
     [string |-> <<"2","0","2","5","-","1","0","-","0","5">>, day |-> 5] >>

\* The entry of a table of [string, day] the string has, if any.
DateEntry(table, string) ==
  IF \E e \in 1..Len(table) : table[e].string = string
  THEN Some(table[CHOOSE e \in 1..Len(table) : table[e].string = string].day
              * TicksPerDay)
  ELSE Null

\* new Date(string).getTime(), Null for NaN.
NewDate(string) == DateEntry(DateConstructor, string)

IsLineEnd(c) == c \in {"\n", "\r"}

\* /Updated\s+(.+)/i on the lower-cased string l, "updated" at position i:
\* where the capture starts, or 0.  \s+ takes as much white space as leaves
\* (.+) one character that is not a line end.
CaptureStart(l, i) ==
  LastOf({c \in (i + 8)..Min(i + 7 + SpaceRun(l, i + 7), Len(l)) : ~IsLineEnd(l[c])})

\* The pattern matches at position i.
UpdatedAt(l, i) ==
  /\ StartsWithAt(l, i, <<"u","p","d","a","t","e","d">>)
  /\ CaptureStart(l, i) > 0

\* The last position of the line position c is on: (.+) runs to it.
RECURSIVE LineEnd(_, _)
LineEnd(l, c) ==
  IF c < Len(l) /\ ~IsLineEnd(l[c + 1]) THEN LineEnd(l, c + 1) ELSE c

\* The capture that starts at position c.
CaptureFrom(dateString, l, c) ==
  IF c = 0 THEN Null ELSE Some(SubSeq(dateString, c, LineEnd(l, c)))

\* The capture of the match at position i, the first one; Null when i is 0.
UpdatedCapture(dateString, l, i) ==
  IF i = 0 THEN Null ELSE CaptureFrom(dateString, l, CaptureStart(l, i))

\* The first match in the lower-cased string l.
UpdatedIn(dateString, l) ==
  UpdatedCapture(dateString, l, FirstOf({i \in 1..Len(l) : UpdatedAt(l, i)}))

\* dateString.match(/Updated\s+(.+)/i): Null, or the captured rest.
UpdatedMatch(dateString) == UpdatedIn(dateString, toLowerCase(dateString))

\* \s+ago at position j.
AgoAfter(l, j) ==
  /\ SpaceRun(l, j) >= 1
  /\ StartsWithAt(l, j + SpaceRun(l, j), <<"a","g","o">>)

\* days?\s+ago at position y.
DaysWordAt(l, y) ==
  /\ StartsWithAt(l, y, <<"d","a","y">>)
  /\ \/ (StartsWithAt(l, y + 3, <<"s">>) /\ AgoAfter(l, y + 4))
     \/ AgoAfter(l, y + 3)

\* \s+days?\s+ago at position d.
AfterDigits(l, d) ==
  /\ SpaceRun(l, d) >= 1
  /\ DaysWordAt(l, d + SpaceRun(l, d))

\* /(\d+)\s+days?\s+ago/i at position i.
DaysAgoAt(l, i) ==
  /\ IsDigitAt(l, i)
  /\ AfterDigits(l, DigitRunEnd(l, i) + 1)

\* The digits captured by the match at position i; Null when i is 0.
DaysAgoCapture(dateString, i) ==
  IF i = 0 THEN Null ELSE Some(SubSeq(dateString, i, DigitRunEnd(dateString, i)))

\* The first match in the lower-cased string l.
DaysAgoIn(dateString, l) ==
  DaysAgoCapture(dateString, FirstOf({i \in 1..Len(l) : DaysAgoAt(l, i)}))

\* dateString.match(/(\d+)\s+days?\s+ago/i): Null, or the captured digits.
DaysAgoMatch(dateString) == DaysAgoIn(dateString, toLowerCase(dateString))

\* Lines 546-561 of parseDate, given the result of the days-ago match.
ParseWith(dateString, daysAgoMatch, clock) ==
  IF daysAgoMatch # Null
  THEN clock - parseInt(daysAgoMatch[1])[1] * TicksPerDay
  ELSE OrElse(NewDate(dateString), Epoch)

\* ParseStripped without the days-ago match.
ParseCalendarOnly(dateString, clock) == OrElse(NewDate(dateString), Epoch)

\* Lines 545-561 of parseDate, for the string left after "Updated".
ParseStripped(dateString, clock) ==
  ParseWith(dateString, DaysAgoMatch(dateString), clock)

\* parseDate of Reviews.jsx, CalendarView and AdvancedSearch (the same code
\* in each), as the instant it returns when `new Date()` reads clock.
parseDate(dateString, clock) ==
  IF dateString = <<>> THEN Epoch
  ELSE ParseStripped(OrElse(UpdatedMatch(dateString), dateString), clock)

-----------------------------------------------------------------------------
(* Array.prototype.sort.                                                   *)

\* The stable sort is an insertion sort under the comparator table cmp, where
\* cmp[<<i, j>>] is the comparator's result on (items[i], items[j]): order
\* holds the positions of the first k - 1 items as sorted so far, and item k
\* goes after those that do not compare greater.
InsertAt(order, k, pos) ==
  SubSeq(order, 1, pos) \o <<k>> \o SubSeq(order, pos + 1, Len(order))

RECURSIVE SortOrder(_, _, _, _)
SortOrder(order, k, n, cmp) ==
  IF k > n THEN order
  ELSE SortOrder(
         InsertAt(order, k,
                  Cardinality({p \in 1..Len(order) : cmp[<<order[p], k>>] <= 0})),
         k + 1, n, cmp)

\* The items in the order of their positions.
Permuted(items, order) == [i \in 1..Len(items) |-> items[order[i]]]

ArraySort(items, cmp) == Permuted(items, SortOrder(<<>>, 1, Len(items), cmp))

-----------------------------------------------------------------------------
(* ReviewGrouping: similarity, main text, topics.                          *)

Min3(a, b, c) == Min(a, Min(b, c))

\* LevRow with a substitution that costs nothing.
RECURSIVE LevRowFreeSubstitution(_, _, _, _)
LevRowFreeSubstitution(prev, ch, str2, acc) ==
  IF Len(acc) = Len(str2) + 1 THEN acc
  ELSE LevRowFreeSubstitution(
         prev, ch, str2,
         Append(acc, IF ch = str2[Len(acc)] THEN prev[Len(acc)]
                     ELSE Min3(prev[Len(acc) + 1] + 1,
                               acc[Len(acc)] + 1,
                               prev[Len(acc)])))

\* One row of the edit-distance matrix: prev is row i-1, ch is str1[i-1],
\* acc holds the entries of row i computed so far.
RECURSIVE LevRow(_, _, _, _)
LevRow(prev, ch, str2, acc) ==
  IF Len(acc) = Len(str2) + 1 THEN acc
  ELSE LevRow(prev, ch, str2,
              Append(acc, IF ch = str2[Len(acc)] THEN prev[Len(acc)]
                          ELSE Min3(prev[Len(acc) + 1] + 1,
                                    acc[Len(acc)] + 1,
                                    prev[Len(acc)] + 1)))

RECURSIVE LevRows(_, _, _)
LevRows(str1, str2, i) ==
  IF i = 0 THEN [j \in 1..(Len(str2) + 1) |-> j - 1]
  ELSE LevRow(LevRows(str1, str2, i - 1), str1[i], str2, <<i>>)

levenshteinDistance(str1, str2) ==
  LevRows(str1, str2, Len(str1))[Len(str2) + 1]

\* Lines 39-41: ((maxLen - distance) / maxLen) * 100 as the fraction
\* <<numerator, denominator>>.
Percentage(maxLen, distance) ==
  IF maxLen = 0 THEN <<100, 1>> ELSE <<(maxLen - distance) * 100, maxLen>>

\* calculateSimilarity with only the second text lower-cased.
calculateSimilarityOneLowered(text1, text2) ==
  IF text1 = <<>> \/ text2 = <<>> THEN <<0, 1>>
  ELSE Percentage(Max(Len(text1), Len(text2)),
                  levenshteinDistance(text1, toLowerCase(text2)))

\* The similarity percentage as a fraction.  For the text lengths of this
\* model the double the code computes compares with an integer threshold as
\* the exact fraction does.
calculateSimilarity(text1, text2) ==
  IF text1 = <<>> \/ text2 = <<>> THEN <<0, 1>>
  ELSE Percentage(Max(Len(text1), Len(text2)),
                  levenshteinDistance(toLowerCase(text1), toLowerCase(text2)))

\* similarity >= threshold
SimilarityAtLeast(similarity, threshold) ==
  similarity[1] >= threshold * similarity[2]

\* MainTextAt with the text before the marker left untrimmed.
MainTextAtUntrimmed(text, match) ==
  IF match # -1 THEN substring0(text, match) ELSE trim(text)

\* Lines 49-52 of extractMainText, given the result of text.search.
MainTextAt(text, match) ==
  IF match # -1 THEN trim(substring0(text, match)) ELSE trim(text)

extractMainText(text) ==
  IF text = <<>> THEN <<>> ELSE MainTextAt(text, searchReplyPattern(text))

topicKeywords ==
  <<  [topic |-> <<"s","c","a","m">>,
       keywords |-> <<<<"s","c","a","m">>,
                     <<"f","r","a","u","d">>,
                     <<"f","a","k","e">>,
                     <<"h","a","c","k">>,
                     <<"s","t","o","l","e","n">>,
                     <<"r","o","b","b","e","r","y">>>>],
      [topic |-> <<"f","e","e","s">>,
       keywords |-> <<<<"c","o","m","m","i","s","s","i","o","n">>,
                     <<"f","e","e">>,
                     <<"2","0","%">>,
                     <<"c","h","a","r","g","e">>,
                     <<"d","e","d","u","c","t","i","o","n">>,
                     <<"t","r","a","n","s","a","c","t","i","o","n"," ","f","e","e">>>>],
      [topic |-> <<"s","u","p","p","o","r","t">>,
       keywords |-> <<<<"s","u","p","p","o","r","t">>,
                     <<"c","u","s","t","o","m","e","r"," ","s","e","r","v","i","c","e">>,
                     <<"h","e","l","p">>,
                     <<"r","e","s","p","o","n","s","e">>,
                     <<"c","o","n","t","a","c","t">>,
                     <<"c","h","a","t","b","o","t">>>>],
      [topic |-> <<"p","a","y","m","e","n","t">>,
       keywords |-> <<<<"p","a","y","m","e","n","t">>,
                     <<"w","i","t","h","d","r","a","w">>,
                     <<"f","u","n","d","s">>,
                     <<"c","l","e","a","r","a","n","c","e">>,
                     <<"p","a","y","p","a","l">>,
                     <<"1","4"," ","d","a","y","s">>,
                     <<"1","4","-","d","a","y">>>>],
      [topic |-> <<"a","l","g","o","r","i","t","h","m">>,
       keywords |-> <<<<"a","l","g","o","r","i","t","h","m">>,
                     <<"r","a","n","k","i","n","g">>,
                     <<"i","m","p","r","e","s","s","i","o","n","s">>,
                     <<"v","i","s","i","b","i","l","i","t","y">>,
                     <<"s","e","a","r","c","h">>,
                     <<"s","u","c","c","e","s","s"," ","s","c","o","r","e">>>>] >>

\* keywords.some(keyword => lowerText.includes(keyword))
SomeKeyword(lowerText, keywords) ==
  \E k \in 1..Len(keywords) : includes(lowerText, keywords[k])

\* The topics of the table that have a keyword the lower-cased text
\* includes, in the table's order.
TopicsIn(lowerText, table) ==
  FilterAt([t \in 1..Len(table) |-> table[t].topic],
           {t \in 1..Len(table) : SomeKeyword(lowerText, table[t].keywords)})

extractTopics(text) ==
  IF text = <<>> THEN <<>> ELSE TopicsIn(toLowerCase(text), topicKeywords)

-----------------------------------------------------------------------------
(* ReviewGrouping: the groupedReviews memo.                                *)

\* PushUnder with the bucket assigned instead of pushed to.
PushUnderAssigned(entries, key, item) ==
  IF \E e \in 1..Len(entries) : entries[e].key = key
  THEN [e \in 1..Len(entries) |->
          IF entries[e].key = key THEN [key |-> key, items |-> <<item>>]
          ELSE entries[e]]
  ELSE Append(entries, [key |-> key, items |-> <<item>>])

\* groups[key].push(item) on an object whose keys are kept in insertion
\* order: entries is a sequence of [key, items].
PushUnder(entries, key, item) ==
  IF \E e \in 1..Len(entries) : entries[e].key = key
  THEN [e \in 1..Len(entries) |->
          IF entries[e].key = key
          THEN [key |-> key, items |-> Append(entries[e].items, item)]
          ELSE entries[e]]
  ELSE Append(entries, [key |-> key, items |-> <<item>>])

RECURSIVE PushUnderEach(_, _, _)
PushUnderEach(entries, keys, item) ==
  IF keys = <<>> THEN entries
  ELSE PushUnderEach(PushUnder(entries, Head(keys), item), Tail(keys), item)

\* The number a key reads as when it is a canonical array index ("0", "1",
\* "42"), and -1 for any other key; n is parseInt(key).
CanonicalIndex(key, n) ==
  IF n # Null /\ n[1] >= 0 /\ NatToString(n[1]) = key THEN n[1] ELSE -1

KeyIndex(key) == CanonicalIndex(key, parseInt(key))

\* The order of two keys in an object's listing, by their KeyIndex: array
\* indices come first, in ascending numeric order, and the other keys after
\* them in insertion order (0).
KeyOrder(i, j) ==
  IF i >= 0 /\ j >= 0 THEN i - j
  ELSE IF i >= 0 THEN -1
  ELSE IF j >= 0 THEN 1
  ELSE 0

ByKeyOrder(entries) ==
  [p \in (1..Len(entries)) \X (1..Len(entries)) |->
     KeyOrder(KeyIndex(entries[p[1]].key), KeyIndex(entries[p[2]].key))]

\* Object.values / Object.entries of an object built by PushUnder.
ObjectEntries(entries) == ArraySort(entries, ByKeyOrder(entries))

\* PushTopics with the item put under its first topic only.
PushTopicsFirstOnly(entries, topics, item) ==
  IF Len(topics) = 0 THEN PushUnder(entries, <<"o","t","h","e","r">>, item)
  ELSE PushUnder(entries, Head(topics), item)

\* Lines 93-102: the topic buckets with the item under each of its topics.
PushTopics(entries, topics, item) ==
  IF Len(topics) = 0 THEN PushUnder(entries, <<"o","t","h","e","r">>, item)
  ELSE PushUnderEach(entries, topics, item)

\* Lines 89-103: the topic buckets after the first n reviews.
RECURSIVE TopicBuckets(_, _)
TopicBuckets(revs, n) ==
  IF n = 0 THEN <<>>
  ELSE PushTopics(TopicBuckets(revs, n - 1),
                  extractTopics(extractMainText(revs[n].review_text)),
                  [review |-> revs[n], index |-> n - 1])

\* Comparator table of (a, b) => b.count - a.count.
ByCountDesc(groups) ==
  [p \in (1..Len(groups)) \X (1..Len(groups)) |->
     groups[p[2]].count - groups[p[1]].count]

\* Lines 105-110: the group made of one topic's bucket.
TopicGroup(topic, items) ==
  [id      |-> topic,
   name    |-> toUpperCase(SubSeq(topic, 1, 1)) \o SubSeq(topic, 2, Len(topic)),
   reviews |-> [i \in 1..Len(items) |-> items[i].review],
   count   |-> Len(items)]

\* Lines 111 and 149: sort((a, b) => b.count - a.count).
SortedByCount(groups) == ArraySort(groups, ByCountDesc(groups))

\* Lines 104-111.
TopicGroupsOf(buckets) ==
  SortedByCount([e \in 1..Len(buckets) |->
                   TopicGroup(buckets[e].key, buckets[e].items)])

\* Lines 86-111.
topicGroups(revs) == TopicGroupsOf(ObjectEntries(TopicBuckets(revs, Len(revs))))

\* SimilarTo without the check of the processed set.
SimilarToProcessedToo(revs, threshold, index, mainText, processed) ==
  {o \in 1..Len(revs) :
     /\ o - 1 # index
     /\ SimilarityAtLeast(
          calculateSimilarity(mainText, extractMainText(revs[o].review_text)),
          threshold)}

\* Lines 130-141: the positions (1-based) of the reviews the inner loop adds
\* to the group seeded at index.
SimilarTo(revs, threshold, index, mainText, processed) ==
  {o \in 1..Len(revs) :
     /\ o - 1 # index
     /\ (o - 1) \notin processed
     /\ SimilarityAtLeast(
          calculateSimilarity(mainText, extractMainText(revs[o].review_text)),
          threshold)}

\* Lines 121-141: the group seeded at index, with the reviews added to it.
SimilarityGroup(revs, index, mainText, similar) ==
  [id      |-> <<"g","r","o","u","p","-">> \o NatToString(index),
   name    |-> <<"S","i","m","i","l","a","r"," ","R","e","v","i","e","w","s"," ","(">>
                 \o substring0(mainText, 50) \o <<".",".",".",")">>,
   reviews |-> <<revs[index + 1]>> \o FilterAt(revs, similar),
   count   |-> 1 + Cardinality(similar),
   representative |-> mainText]

\* Claimed with the group kept whatever its count.
ClaimedAlways(acc, index, similar, group) ==
  [groups    |-> Append(acc.groups, group),
   processed |-> acc.processed \cup {o - 1 : o \in similar} \cup {index}]

\* Lines 138 and 143-146: what the visit of a seed leaves in the accumulator.
\* The added reviews are marked processed as they are added, and there are
\* some exactly when the group is kept.
Claimed(acc, index, similar, group) ==
  IF group.count > 1
  THEN [groups    |-> Append(acc.groups, group),
        processed |-> acc.processed \cup {o - 1 : o \in similar} \cup {index}]
  ELSE [groups    |-> acc.groups,
        processed |-> acc.processed \cup {o - 1 : o \in similar}]

SeedWith(revs, acc, index, mainText, similar) ==
  Claimed(acc, index, similar, SimilarityGroup(revs, index, mainText, similar))

\* Lines 118-146: one round of the outer loop.
Visit(revs, threshold, acc, index, mainText) ==
  IF index \in acc.processed THEN acc
  ELSE SeedWith(revs, acc, index, mainText,
                SimilarTo(revs, threshold, index, mainText, acc.processed))

\* Lines 117-147: the accumulator [groups, processed] after the outer loop
\* has visited the first n reviews.  Indices are 0-based as in the code.
RECURSIVE SimilarityPass(_, _, _)
SimilarityPass(revs, threshold, n) ==
  IF n = 0 THEN [groups |-> <<>>, processed |-> {}]
  ELSE Visit(revs, threshold, SimilarityPass(revs, threshold, n - 1), n - 1,
             extractMainText(revs[n].review_text))

\* Lines 114-149.
similarityGroups(revs, threshold) ==
  SortedByCount(SimilarityPass(revs, threshold, Len(revs)).groups)

\* review.star_rating || 'unknown'
RatingKey(review) ==
  IF review.star_rating = <<>> THEN <<"u","n","k","n","o","w","n">>
  ELSE review.star_rating

\* Lines 152-165: the rating buckets after the first n reviews.
RECURSIVE RatingBuckets(_, _)
RatingBuckets(revs, n) ==
  IF n = 0 THEN <<>>
  ELSE PushUnder(RatingBuckets(revs, n - 1), RatingKey(revs[n]), revs[n])

\* Lines 156-161 and 163-164: the group of one rating.
RatingGroup(rating, members) ==
  [id      |-> <<"r","a","t","i","n","g","-">> \o rating,
   name    |-> rating \o <<" ","S","t","a","r">>
                 \o (IF rating # <<"1">> THEN <<"s">> ELSE <<>>),
   reviews |-> members,
   count   |-> Len(members)]

\* parseInt(b.id.split('-')[1]) - parseInt(a.id.split('-')[1]); a NaN result
\* is taken as 0 by the sort.
IdDifference(a, b) == IF a = Null \/ b = Null THEN 0 ELSE b[1] - a[1]

ByRatingIdDesc(groups) ==
  [p \in (1..Len(groups)) \X (1..Len(groups)) |->
     IdDifference(parseInt(split(groups[p[1]].id, "-")[2]),
                  parseInt(split(groups[p[2]].id, "-")[2]))]

\* SortedByRatingId with the sort left out.
SortedByRatingIdNot(groups) == groups

\* Line 167.
SortedByRatingId(groups) == ArraySort(groups, ByRatingIdDesc(groups))

\* Object.values(groups) of lines 152-165.
RatingGroupsOf(buckets) ==
  [e \in 1..Len(buckets) |-> RatingGroup(buckets[e].key, buckets[e].items)]

\* Lines 152-167.
ratingGroups(revs) ==
  SortedByRatingId(RatingGroupsOf(ObjectEntries(RatingBuckets(revs, Len(revs)))))

\* Lines 83-171: the groups ReviewGrouping shows for its reviews prop.
ReviewGroups(revs, mode, threshold) ==
  IF Len(revs) = 0 THEN <<>>
  ELSE IF mode = "topic" THEN topicGroups(revs)
  ELSE IF mode = "similarity" THEN similarityGroups(revs, threshold)
  ELSE IF mode = "rating" THEN ratingGroups(revs)
  ELSE <<>>

-----------------------------------------------------------------------------
(* Reviews: the filter engine.                                             *)

All == <<"a","l","l">>

sellerKeywords ==
  << <<"s","e","l","l","e","r">>,
     <<"f","r","e","e","l","a","n","c","e","r">>,
     <<"g","i","g">>,
     <<"d","e","l","i","v","e","r","y">>,
     <<"o","r","d","e","r">>,
     <<"c","l","i","e","n","t">>,
     <<"b","u","y","e","r">>,
     <<"c","o","m","m","i","s","s","i","o","n">>,
     <<"f","e","e","s">>,
     <<"w","i","t","h","d","r","a","w">>,
     <<"p","a","y","m","e","n","t">>,
     <<"f","u","n","d","s">>,
     <<"c","l","e","a","r","a","n","c","e">>,
     <<"i","m","p","r","e","s","s","i","o","n","s">>,
     <<"r","a","n","k","i","n","g">>,
     <<"a","l","g","o","r","i","t","h","m">>,
     <<"s","u","c","c","e","s","s"," ","s","c","o","r","e">>,
     <<"t","o","p"," ","r","a","t","e","d">> >>

buyerKeywords ==
  << <<"h","i","r","e","d">>,
     <<"p","u","r","c","h","a","s","e","d">>,
     <<"b","o","u","g","h","t">>,
     <<"p","a","i","d">>,
     <<"s","e","r","v","i","c","e">>,
     <<"p","r","o","j","e","c","t">>,
     <<"d","e","v","e","l","o","p","e","r">>,
     <<"d","e","s","i","g","n","e","r">>,
     <<"w","o","r","k">>,
     <<"d","e","l","i","v","e","r","e","d">>,
     <<"s","c","a","m","m","e","d">>,
     <<"f","r","a","u","d">> >>

\* keywords.filter(kw => lowerText.includes(kw)).length
KeywordCount(lowerText, keywords) ==
  Cardinality({k \in 1..Len(keywords) : includes(lowerText, keywords[k])})

\* Lines 493-496.
UserTypeOf(sellerCount, buyerCount) ==
  IF sellerCount > buyerCount THEN "seller"
  ELSE IF buyerCount > sellerCount THEN "buyer"
  ELSE "unknown"

\* Lines 478-496, for the lower-cased text.
UserTypeIn(lowerText) ==
  UserTypeOf(KeywordCount(lowerText, sellerKeywords),
             KeywordCount(lowerText, buyerKeywords))

detectUserType(text) ==
  IF text = <<>> THEN "unknown" ELSE UserTypeIn(toLowerCase(text))

\* An override that is set and has members (x && x.length > 0).
Populated(x) == x # Null /\ Len(x[1]) > 0

\* Lines 595-597: the lower-cased review text up to the reply marker; match
\* is the result of reviewText.search.
BeforeReply(reviewText, match) ==
  IF match # -1 THEN substring0(reviewText, match) ELSE reviewText

\* Lines 591-598, on the lower-cased term, text and name.
SearchTermIn(searchTerm, reviewText, reviewerName, searchInReplies) ==
  IF searchInReplies
  THEN includes(reviewText, searchTerm) \/ includes(reviewerName, searchTerm)
  ELSE \/ includes(BeforeReply(reviewText, searchReplyPattern(reviewText)), searchTerm)
       \/ includes(reviewerName, searchTerm)

\* Lines 585-600: the search text predicate.
MatchesSearchText(review, filters) ==
  SearchTermIn(toLowerCase(filters.searchText), toLowerCase(review.review_text),
               toLowerCase(review.reviewer_name), filters.searchInReplies)

\* Lines 619-628, on the parsed instants.  A bound the Date constructor
\* cannot read is NaN, and no date compares below or above NaN; the end of
\* the end day is its last tick.
Within(reviewDate, dateRange, startDate, endDate) ==
  /\ ~(dateRange.start # <<>> /\ startDate # Null /\ reviewDate < startDate[1])
  /\ ~(/\ dateRange.end # <<>>
       /\ endDate # Null
       /\ reviewDate > endDate[1] + TicksPerDay - 1)

\* Lines 617-631: the date range predicate.
InDateRange(review, dateRange, clock) ==
  Within(parseDate(review.date, clock), dateRange,
         NewDate(dateRange.start), NewDate(dateRange.end))

\* hasReplyPattern.test(text)
hasReplyPattern(text) == searchReplyPattern(text) # -1

\* ReplyFilter with every choice but "yes" letting all reviews through.
ReplyFilterYesOnly(hasReply, found) == IF hasReply = "yes" THEN found ELSE TRUE

\* Lines 643-647, given the result of hasReplyPattern.test.
ReplyFilter(hasReply, found) ==
  IF hasReply = "yes" THEN found
  ELSE IF hasReply \notin {"", "all"} THEN ~found
  ELSE TRUE

\* The words of a text, counted by the spaces between them.
WordCount(text) == 1 + Cardinality({i \in 1..Len(text) : text[i] = " "})

\* PassesAdvanced with the word count choice of the form applied as well.
PassesAdvancedWordCount(review, filters, clock) ==
  /\ filters.searchText # <<>> => MatchesSearchText(review, filters)
  /\ (filters.filterRating # <<>> /\ filters.filterRating # All)
       => review.star_rating = filters.filterRating
  /\ (filters.filterUserType # "" /\ filters.filterUserType # "all")
       => detectUserType(review.review_text) = filters.filterUserType
  /\ (filters.dateRange.start # <<>> \/ filters.dateRange.end # <<>>)
       => InDateRange(review, filters.dateRange, clock)
  /\ filters.minUsefulCount # Null
       => /\ filters.minUsefulCount[1] # Null
          /\ OrZero(parseInt(review.useful_count)) >= filters.minUsefulCount[1][1]
  /\ ReplyFilter(filters.hasReply, hasReplyPattern(review.review_text))
  /\ filters.wordCountFilter = "short" => WordCount(review.review_text) < 50
  /\ filters.wordCountFilter = "medium" => WordCount(review.review_text) \in 50..150
  /\ filters.wordCountFilter = "large" => WordCount(review.review_text) > 150

\* Lines 581-649: a review passes every predicate of the applied filter spec.
\* minUsefulCount is Null for null and otherwise holds the result of parseInt,
\* which is itself Null for NaN; no count compares at or above NaN.
PassesAdvanced(review, filters, clock) ==
  /\ filters.searchText # <<>> => MatchesSearchText(review, filters)
  /\ (filters.filterRating # <<>> /\ filters.filterRating # All)
       => review.star_rating = filters.filterRating
  /\ (filters.filterUserType # "" /\ filters.filterUserType # "all")
       => detectUserType(review.review_text) = filters.filterUserType
  /\ (filters.dateRange.start # <<>> \/ filters.dateRange.end # <<>>)
       => InDateRange(review, filters.dateRange, clock)
  /\ filters.minUsefulCount # Null
       => /\ filters.minUsefulCount[1] # Null
          /\ OrZero(parseInt(review.useful_count)) >= filters.minUsefulCount[1][1]
  /\ ReplyFilter(filters.hasReply, hasReplyPattern(review.review_text))

\* Lines 651-663: the legacy word and rating filters.
PassesLegacy(review, word, rating) ==
  /\ word # Null => includes(toLowerCase(review.review_text), toLowerCase(word[1]))
  /\ rating # All => review.star_rating = rating

\* The composed filter with the legacy filters applied on top of the spec.
ComposedFilterLegacyToo(revs, filters, word, rating, clock) ==
  FilterAt(revs, {i \in 1..Len(revs) :
                    /\ filters # Null => PassesAdvanced(revs[i], filters[1], clock)
                    /\ PassesLegacy(revs[i], word, rating)})

\* Lines 578-664: the composed filter.
ComposedFilter(revs, filters, word, rating, clock) ==
  FilterAt(revs, {i \in 1..Len(revs) :
                    IF filters # Null THEN PassesAdvanced(revs[i], filters[1], clock)
                    ELSE PassesLegacy(revs[i], word, rating)})

\* a - b on the results of parseInt; NaN makes the comparator's result NaN,
\* which the sort takes as 0.
NumSub(a, b) == IF a = Null \/ b = Null THEN 0 ELSE a[1] - b[1]

\* parseInt(a.star_rating) - parseInt(b.star_rating)
RatingDifference(a, b) == NumSub(parseInt(a.star_rating), parseInt(b.star_rating))

\* parseDate(a.date) - parseDate(b.date)
DateDifference(a, b, clock) == parseDate(a.date, clock) - parseDate(b.date, clock)

\* Lines 667-680: the comparator's result on (a, b).
Comparator(a, b, key, clock) ==
  IF key = "rating-desc" THEN RatingDifference(b, a)
  ELSE IF key = "rating-asc" THEN RatingDifference(a, b)
  ELSE IF key = "date-desc" THEN DateDifference(b, a, clock)
  ELSE IF key = "date-asc" THEN DateDifference(a, b, clock)
  ELSE 0

BySortKey(items, key, clock) ==
  [p \in (1..Len(items)) \X (1..Len(items)) |->
     Comparator(items[p[1]], items[p[2]], key, clock)]

\* Lines 667-682: [...filtered].sort(...).
SortedBy(filtered, key, clock) == ArraySort(filtered, BySortKey(filtered, key, clock))

\* FilteredAndSorted with the group selection looked at first.
FilteredAndSortedGroupFirst(revs, key, rating, word, filters, grouped, selectedDate, collection, clock) ==
  IF Populated(grouped) THEN grouped[1]
  ELSE IF Populated(selectedDate) THEN selectedDate[1]
  ELSE IF Populated(collection) THEN collection[1]
  ELSE SortedBy(ComposedFilter(revs, filters, word, rating, clock), key, clock)

\* FilteredAndSorted with the composed filter applied to the override too.
FilteredAndSortedFilterOnTop(revs, key, rating, word, filters, grouped, selectedDate, collection, clock) ==
  IF Populated(collection)
  THEN ComposedFilter(collection[1], filters, word, rating, clock)
  ELSE IF Populated(selectedDate)
  THEN ComposedFilter(selectedDate[1], filters, word, rating, clock)
  ELSE IF Populated(grouped)
  THEN ComposedFilter(grouped[1], filters, word, rating, clock)
  ELSE SortedBy(ComposedFilter(revs, filters, word, rating, clock), key, clock)

\* The memo with an override taken whenever it is set, populated or not.
FilteredAndSortedEmptyActive(revs, key, rating, word, filters, grouped, selectedDate, collection, clock) ==
  IF collection # Null THEN collection[1]
  ELSE IF selectedDate # Null THEN selectedDate[1]
  ELSE IF grouped # Null THEN grouped[1]
  ELSE SortedBy(ComposedFilter(revs, filters, word, rating, clock), key, clock)

\* Lines 564-683: the value of the filteredAndSortedReviews memo for the
\* given props and state.
FilteredAndSorted(revs, key, rating, word, filters, grouped, selectedDate, collection, clock) ==
  IF Populated(collection) THEN collection[1]
  ELSE IF Populated(selectedDate) THEN selectedDate[1]
  ELSE IF Populated(grouped) THEN grouped[1]
  ELSE SortedBy(ComposedFilter(revs, filters, word, rating, clock), key, clock)

-----------------------------------------------------------------------------
(* CalendarView: the reviewsByDate memo.                                   *)

\* date.toISOString().split('T')[0], as the number of the day.
DateKey(instant) == instant \div TicksPerDay

\* Lines 39-54: the per-day buckets after the first n reviews, in the order
\* the days were first met.
RECURSIVE DateBuckets(_, _, _)
DateBuckets(revs, clock, n) ==
  IF n = 0 THEN <<>>
  ELSE PushUnder(DateBuckets(revs, clock, n - 1),
                 DateKey(parseDate(revs[n].date, clock)), revs[n])

\* ratings.reduce((a, b) => a + b, 0)
RECURSIVE SumOf(_)
SumOf(ratings) == IF ratings = <<>> THEN 0 ELSE Head(ratings) + SumOf(Tail(ratings))

\* DayOf with a day of exactly half low ratings taken as a crisis too.
DayOfHalfLow(dateKey, members, ratings, lowRatingCount) ==
  [dateKey        |-> dateKey,
   reviews        |-> members,
   count          |-> Len(members),
   avgRating      |-> <<SumOf(ratings), Len(ratings)>>,
   isCrisis       |-> 2 * lowRatingCount >= Len(ratings) /\ Len(ratings) >= 3,
   lowRatingCount |-> lowRatingCount]

\* Lines 59-71, given the day's ratings.  avgRating is the fraction <<sum,
\* count>>.
DayOf(dateKey, members, ratings, lowRatingCount) ==
  [dateKey        |-> dateKey,
   reviews        |-> members,
   count          |-> Len(members),
   avgRating      |-> <<SumOf(ratings), Len(ratings)>>,
   isCrisis       |-> 2 * lowRatingCount > Len(ratings) /\ Len(ratings) >= 3,
   lowRatingCount |-> lowRatingCount]

\* Lines 53 and 60-61.
DayWithRatings(dateKey, members, ratings) ==
  DayOf(dateKey, members, ratings,
        Cardinality({i \in 1..Len(ratings) : ratings[i] <= 2}))

\* Lines 57-72.
DaysOf(grouped) ==
  [e \in 1..Len(grouped) |->
     DayWithRatings(grouped[e].key, grouped[e].items,
                    [i \in 1..Len(grouped[e].items) |->
                       OrZero(parseInt(grouped[e].items[i].star_rating))])]

\* Lines 34-74.
reviewsByDate(revs, clock) == DaysOf(DateBuckets(revs, clock, Len(revs)))

-----------------------------------------------------------------------------
(* The data the model runs on.                                             *)

Review(url, name, date, rating, text, useful) ==
  [source_url    |-> url,
   reviewer_name |-> name,
   date          |-> date,
   star_rating   |-> rating,
   review_text   |-> text,
   useful_count  |-> useful]

\* "scam fee", Oct 3, one star: topics scam and fees.
Review1 ==
  Review(1, <<"a","n","n">>,
         <<"O","c","t"," ","3",","," ","2","0","2","5">>, <<"1">>,
         <<"s","c","a","m"," ","f","e","e">>, <<"3">>)

\* "abcd" with an operator reply, two days ago, five stars.
Review2 ==
  Review(2, <<"b","o","b">>,
         <<"2"," ","d","a","y","s"," ","a","g","o">>, <<"5">>,
         <<"a","b","c","d"," ","R","e","p","l","y"," ","f","r","o","m"," ",
           "F","i","v","e","r","r",":"," ","p","a","i","d"," ","w","o","r","k">>,
         <<>>)

\* "abcx", Oct 3, one star.
Review3 ==
  Review(3, <<"a","n","n">>,
         <<"U","p","d","a","t","e","d"," ","O","c","t"," ","3",","," ","2","0","2","5">>,
         <<"1">>, <<"a","b","c","x">>, <<"0">>)

\* "gig fees", two days ago, three stars.
Review4 ==
  Review(4, <<"b","o","b">>,
         <<"2"," ","d","a","y","s"," ","a","g","o">>, <<"3">>,
         <<"g","i","g"," ","f","e","e","s">>, <<"3">>)

SampleReviews == <<Review1, Review2, Review3, Review4>>

\* The corpus App hands to Reviews.
Corpus == SubSeq(SampleReviews, 1, Min(MaxReviews, Len(SampleReviews)))

\* localStorage's review_collections: a collection of two reviews, and one
\* whose ids name no review of the corpus.
StoredCollections ==
  << [id |-> 1, name |-> <<"a">>, reviewIds |-> <<1, 2>>],
     [id |-> 2, name |-> <<"b">>, reviewIds |-> <<9>>] >>

\* The texts and ratings ReviewGrouping is tried on: "abcd" and "ABCD" differ
\* in case only; "abcx" is one edit from "abcd" and from "abyx", which are
\* two edits apart; the last one is a reply alone, so its main text is empty,
\* and it has no rating.
GroupProfiles ==
  << [text |-> <<"a","b","c","d">>, rating |-> <<"5">>],
     [text |-> <<"A","B","C","D">>, rating |-> <<"1">>],
     [text |-> <<"a","b","c","x">>, rating |-> <<"1">>],
     [text |-> <<"a","b","y","x">>, rating |-> <<"3">>],
     [text |-> <<"R","e","p","l","y"," ","f","r","o","m"," ",
                 "F","i","v","e","r","r",":"," ","a","b","c","d">>,
      rating |-> <<>>] >>

\* The corpus whose review at position i has profile p[i]; every review has
\* its own source_url and all have the same date.
ProfileCorpus(p) ==
  [i \in 1..Len(p) |->
     Review(i, <<"a","n","n">>, <<"O","c","t"," ","3",","," ","2","0","2","5">>,
            GroupProfiles[p[i]].rating, GroupProfiles[p[i]].text, <<>>)]

\* Ratings 1, 1, 1, 5, 5.
RatingExample == ProfileCorpus(<<2, 3, 2, 1, 1>>)

GroupCorpora ==
  UNION {{ProfileCorpus(p) : p \in [1..n -> 1..Len(GroupProfiles)]} : n \in 0..MaxGroupInput}
    \cup {RatingExample}

\* What the user may pick or type.
SortKeys == {"date-desc", "rating-asc"}

GroupingModes == {"topic", "similarity", "rating"}

\* Values the range input of ReviewGrouping offers (min 50, max 95).
SliderInputs == {50}

\* The two ends of the range input, used when ReviewGrouping is tried on its
\* own.
ThresholdInputs == {50, 95}

SearchTextInputs == {<<>>, <<"s","c","a","m">>}

-----------------------------------------------------------------------------
(* AdvancedSearch.                                                         *)

\* Lines 54-61: the form's initial field values.
DefaultSearch ==
  [searchText      |-> <<>>,
   filterRating    |-> All,
   filterUserType  |-> "all",
   dateRange       |-> [start |-> <<>>, end |-> <<>>],
   searchInReplies |-> FALSE,
   minUsefulCount  |-> <<>>,
   hasReply        |-> "all",
   wordCountFilter |-> "all"]

\* Lines 153-162: the filter spec the effect hands to onFiltersChange.
FiltersOf(fields) ==
  [searchText      |-> fields.searchText,
   filterRating    |-> fields.filterRating,
   filterUserType  |-> fields.filterUserType,
   dateRange       |-> fields.dateRange,
   searchInReplies |-> fields.searchInReplies,
   minUsefulCount  |-> IF fields.minUsefulCount # <<>>
                       THEN Some(parseInt(fields.minUsefulCount)) ELSE Null,
   hasReply        |-> fields.hasReply,
   wordCountFilter |-> fields.wordCountFilter]

\* Lines 66-75: the saved searches as JSON.parse makes them, each record
\* with a dateRange object of its own (ref numbers the objects the saved
\* searches hold; the form's own first object is 0).
Reloaded(saved) == [i \in 1..Len(saved) |-> [saved[i] EXCEPT !.ref = i]]

-----------------------------------------------------------------------------
(* The Reviews component and its children as a state machine.              *)

\* App.jsx line 46 passes no filterWord.
filterWord == Null

\* The memo is recomputed from the new props and state.
Render ==
  filteredAndSortedReviews' =
    FilteredAndSorted(reviews', sortBy', filterRating', filterWord, advancedFilters',
                      groupedReviews', selectedDateReviews', collectionReviews', now')

\* Reviews.jsx lines 500-511 and the first render; AdvancedSearch.jsx lines
\* 54-63 and the first run of its effect; Collections.jsx lines 10-19.
MountedWith(storedCollections, storedSearches) ==
  /\ now = StartDay * TicksPerDay
  /\ sortBy = "date-desc"
  /\ filterRating = All
  /\ search = DefaultSearch
  /\ advancedFilters = Some(FiltersOf(DefaultSearch))
  /\ showGrouping = FALSE
  /\ groupedReviews = Null
  /\ showCalendar = FALSE
  /\ selectedDateReviews = Null
  /\ collectionReviews = Null
  /\ showCollections = FALSE
  /\ groupingMode = "topic"
  /\ similarityThreshold = 70
  /\ collections = storedCollections
  /\ activeTab = "reviews"
  /\ chartData = Null
  /\ summary = Null
  /\ selectedReviews = {}
  /\ showCreateForm = FALSE
  /\ collectionName = <<>>
  /\ savedSearches = Reloaded(storedSearches)
  /\ dateRangeRef = 0
  /\ thrown = ""
  /\ filteredAndSortedReviews =
       FilteredAndSorted(reviews, sortBy, filterRating, filterWord, advancedFilters,
                         groupedReviews, selectedDateReviews, collectionReviews, now)

\* With the collections of StoredCollections and no saved search.
Mounted == MountedWith(StoredCollections, <<>>)

Init ==
  /\ reviews = Corpus
  /\ Mounted

overrideVars == <<groupedReviews, selectedDateReviews, collectionReviews>>

groupingVars == <<groupingMode, similarityThreshold>>

filterVars == <<filterRating, advancedFilters, search>>

panelVars == <<showGrouping, showCalendar, showCollections>>

dashboardVars == <<activeTab, chartData, summary>>

selectionVars == <<selectedReviews, showCreateForm, collectionName>>

savedVars == <<savedSearches, dateRangeRef, thrown>>

\* Reviews.jsx line 931: the sort select.
SetSortBy(key) ==
  /\ key # sortBy
  /\ sortBy' = key
  /\ UNCHANGED <<reviews, now, collections, dashboardVars, selectionVars, savedVars, overrideVars, groupingVars, filterVars,
                 panelVars>>
  /\ Render

\* AdvancedSearch.jsx lines 152-167: after a field changed, the effect hands
\* the new filter spec to setAdvancedFilters.  ref is the dateRange object
\* the form now holds: 0 for one no saved search holds.
FieldsChange(fields, ref) ==
  /\ search' = fields
  /\ dateRangeRef' = ref
  /\ advancedFilters' = Some(FiltersOf(fields))
  /\ UNCHANGED <<reviews, now, collections, dashboardVars, selectionVars, savedSearches, thrown,
                 sortBy, filterRating, overrideVars, groupingVars, panelVars>>
  /\ Render

\* AdvancedSearch.jsx line 178.
SetSearchText(text) ==
  /\ text # search.searchText
  /\ FieldsChange([search EXCEPT !.searchText = text], dateRangeRef)

\* AdvancedSearch.jsx lines 195, 207, 217, 226, 239 and 270: the selects, the
\* number input and the check box of the form.
SetField(field, value) ==
  /\ value # search[field]
  /\ FieldsChange([search EXCEPT ![field] = value], dateRangeRef)

\* AdvancedSearch.jsx lines 252 and 261: a date input puts a new object into
\* dateRange.
SetDateRange(bound, value) ==
  /\ value # search.dateRange[bound]
  /\ FieldsChange([search EXCEPT !.dateRange[bound] = value], 0)

\* AdvancedSearch.jsx lines 140-149: setDateRange is given a new object, so
\* the effect runs even when every field already had its default.
ClearFilters == FieldsChange(DefaultSearch, 0)

\* Reviews.jsx lines 941-956: the legacy rating select.
SetFilterRating(rating) ==
  /\ rating # filterRating
  /\ filterRating' = rating
  /\ UNCHANGED <<reviews, now, collections, dashboardVars, selectionVars, savedVars, sortBy,
                 advancedFilters, search, overrideVars, groupingVars, panelVars>>
  /\ Render

\* Reviews.jsx lines 815-823: the search badge's clear button.
ClearSearchBadge ==
  /\ advancedFilters # Null
  /\ advancedFilters[1].searchText # <<>>
  /\ advancedFilters' = Null
  /\ UNCHANGED <<reviews, now, collections, dashboardVars, selectionVars, savedVars, sortBy, filterRating, search, overrideVars,
                 groupingVars, panelVars>>
  /\ Render

\* Reviews.jsx line 834.  ReviewGrouping's own state starts afresh each time
\* it is mounted.
ToggleGrouping ==
  /\ showGrouping' = ~showGrouping
  /\ groupingMode' = "topic"
  /\ similarityThreshold' = 70
  /\ UNCHANGED <<reviews, now, collections, dashboardVars, selectionVars, savedVars, sortBy, filterVars, overrideVars,
                 showCalendar, showCollections, filteredAndSortedReviews>>

\* ReviewGrouping line 196.
SetGroupingMode(mode) ==
  /\ showGrouping
  /\ mode # groupingMode
  /\ groupingMode' = mode
  /\ UNCHANGED <<reviews, now, collections, dashboardVars, selectionVars, savedVars, sortBy, filterVars, overrideVars,
                 panelVars, similarityThreshold, filteredAndSortedReviews>>

\* ReviewGrouping lines 204-213: the range input is shown in similarity mode.
SetSimilarityThreshold(threshold) ==
  /\ showGrouping
  /\ groupingMode = "similarity"
  /\ threshold # similarityThreshold
  /\ similarityThreshold' = threshold
  /\ UNCHANGED <<reviews, now, collections, dashboardVars, selectionVars, savedVars, sortBy, filterVars, overrideVars,
                 panelVars, groupingMode, filteredAndSortedReviews>>

\* The groups ReviewGrouping shows: its reviews prop is the displayed sequence.
ShownGroups == ReviewGroups(filteredAndSortedReviews, groupingMode, similarityThreshold)

\* ReviewGrouping lines 183-187 and Reviews.jsx lines 843-846: a click on one
\* of the shown groups.
HandleGroupClick ==
  /\ showGrouping
  /\ LET groups == ShownGroups
     IN \E g \in 1..Len(groups) : groupedReviews' = Some(groups[g].reviews)
  /\ showGrouping' = FALSE
  /\ groupingMode' = "topic"
  /\ similarityThreshold' = 70
  /\ UNCHANGED <<reviews, now, collections, dashboardVars, selectionVars, savedVars, sortBy, filterVars, selectedDateReviews,
                 collectionReviews, showCalendar, showCollections>>
  /\ Render

\* Reviews.jsx lines 850-858: the grouping badge's clear button.
ClearGrouping ==
  /\ Populated(groupedReviews)
  /\ groupedReviews' = Null
  /\ UNCHANGED <<reviews, now, collections, dashboardVars, selectionVars, savedVars, sortBy, filterVars, selectedDateReviews,
                 collectionReviews, groupingVars, panelVars>>
  /\ Render

\* Reviews.jsx line 873.
ToggleCalendar ==
  /\ showCalendar' = ~showCalendar
  /\ UNCHANGED <<reviews, now, collections, dashboardVars, selectionVars, savedVars, sortBy, filterVars, overrideVars,
                 groupingVars, showGrouping, showCollections,
                 filteredAndSortedReviews>>

\* The days CalendarView shows: its reviews prop is the displayed sequence.
ShownDays == reviewsByDate(filteredAndSortedReviews, now)

\* CalendarView lines 182-186, 226-230 and Reviews.jsx lines 918-921: a click
\* on one of the shown days.
SelectDate ==
  /\ showCalendar
  /\ LET days == ShownDays
     IN \E d \in 1..Len(days) : selectedDateReviews' = Some(days[d].reviews)
  /\ showCalendar' = FALSE
  /\ UNCHANGED <<reviews, now, collections, dashboardVars, selectionVars, savedVars, sortBy, filterVars, groupedReviews,
                 collectionReviews, groupingVars, showGrouping, showCollections>>
  /\ Render

\* Reviews.jsx lines 860-868: the date badge's clear button.
ClearDate ==
  /\ selectedDateReviews # Null
  /\ selectedDateReviews' = Null
  /\ UNCHANGED <<reviews, now, collections, dashboardVars, selectionVars, savedVars, sortBy, filterVars, groupedReviews,
                 collectionReviews, groupingVars, panelVars>>
  /\ Render

\* Collections.jsx line 128: the list reads the length of every listed
\* collection's reviewIds.
Listable(collection) == "reviewIds" \in DOMAIN collection

\* Reviews.jsx lines 879 and 893-902: Collections is mounted when the panel
\* opens, with its form closed, and unmounted when it closes.  Rendering the
\* list of line 128 throws on a record that has no reviewIds; nothing catches
\* an error thrown while rendering, so the whole tree is unmounted.
ToggleCollections ==
  /\ thrown # "render"
  /\ showCollections' = ~showCollections
  /\ showCreateForm' = FALSE
  /\ collectionName' = <<>>
  /\ thrown' = IF ~showCollections /\ \E c \in 1..Len(collections) : ~Listable(collections[c])
               THEN "render" ELSE thrown
  /\ UNCHANGED <<reviews, now, collections, dashboardVars, selectedReviews, savedSearches, dateRangeRef,
                 sortBy, filterVars, overrideVars, groupingVars, showGrouping, showCalendar,
                 filteredAndSortedReviews>>

\* Collections.jsx lines 54-60: the ids of the corpus's reviews the
\* collection names.
loadCollection(collection, revs) ==
  LET named == FilterAt(revs, {i \in 1..Len(revs) :
                                 \E k \in 1..Len(collection.reviewIds) :
                                    collection.reviewIds[k] = revs[i].source_url})
  IN [i \in 1..Len(named) |-> named[i].source_url]

\* Reviews.jsx lines 897-900.
onCollectionSelect(reviewIds, revs) ==
  FilterAt(revs, {i \in 1..Len(revs) :
                    \E k \in 1..Len(reviewIds) : reviewIds[k] = revs[i].source_url})

\* Collections.jsx line 134: the Load button of a listed collection.
LoadCollection(c) ==
  /\ thrown # "render"
  /\ showCollections
  /\ c \in 1..Len(collections)
  /\ collectionReviews' =
       Some(onCollectionSelect(loadCollection(collections[c], reviews), reviews))
  /\ showCollections' = FALSE
  /\ showCreateForm' = FALSE
  /\ collectionName' = <<>>
  /\ UNCHANGED <<reviews, now, collections, dashboardVars, selectedReviews, savedVars, sortBy, filterVars, groupedReviews,
                 selectedDateReviews, groupingVars, showGrouping, showCalendar>>
  /\ Render

\* Reviews.jsx lines 905-913: the collection badge's clear button.
ClearCollection ==
  /\ thrown # "render"
  /\ Populated(collectionReviews)
  /\ collectionReviews' = Null
  /\ UNCHANGED <<reviews, now, collections, dashboardVars, selectionVars, savedVars, sortBy, filterVars, groupedReviews,
                 selectedDateReviews, groupingVars, panelVars>>
  /\ Render

Next ==
  \/ \E key \in SortKeys : SetSortBy(key)
  \/ \E text \in SearchTextInputs : SetSearchText(text)
  \/ ClearFilters
  \/ ClearSearchBadge
  \/ ToggleGrouping
  \/ \E mode \in GroupingModes : SetGroupingMode(mode)
  \/ \E threshold \in SliderInputs : SetSimilarityThreshold(threshold)
  \/ HandleGroupClick
  \/ ClearGrouping
  \/ ToggleCalendar
  \/ SelectDate
  \/ ClearDate
  \/ ToggleCollections
  \/ \E c \in 1..Len(collections) : LoadCollection(c)
  \/ ClearCollection

Spec == Init /\ [][Next]_vars

\* ReviewGrouping on its own: Reviews is mounted on each corpus of
\* GroupCorpora and only the grouping panel is used.
InitGrouping ==
  /\ reviews \in GroupCorpora
  /\ Mounted

NextGrouping ==
  \/ ToggleGrouping
  \/ \E mode \in GroupingModes : SetGroupingMode(mode)
  \/ \E threshold \in ThresholdInputs : SetSimilarityThreshold(threshold)

SpecGrouping == InitGrouping /\ [][NextGrouping]_vars


-----------------------------------------------------------------------------
(* Properties of the displayed sequence (specification Spec).              *)

AnyOverride ==
  \/ Populated(collectionReviews)
  \/ Populated(selectedDateReviews)
  \/ Populated(groupedReviews)

PopulatedOverrides ==
  {o \in {"collection", "date", "group"} :
     \/ o = "collection" /\ Populated(collectionReviews)
     \/ o = "date" /\ Populated(selectedDateReviews)
     \/ o = "group" /\ Populated(groupedReviews)}

\* C1: a populated collection selection is displayed exactly, whatever the
\* day and group selections hold; without it a populated day selection is
\* displayed exactly, whatever the group selection holds; without both a
\* populated group selection is displayed exactly.
C1_OverridePriority ==
  /\ Populated(collectionReviews) =>
       filteredAndSortedReviews = collectionReviews[1]
  /\ (~Populated(collectionReviews) /\ Populated(selectedDateReviews)) =>
       filteredAndSortedReviews = selectedDateReviews[1]
  /\ (~Populated(collectionReviews) /\ ~Populated(selectedDateReviews)
        /\ Populated(groupedReviews)) =>
       filteredAndSortedReviews = groupedReviews[1]

\* All three selections populated with different members.
C1_Witness ==
  /\ Populated(collectionReviews)
  /\ Populated(selectedDateReviews)
  /\ Populated(groupedReviews)
  /\ collectionReviews[1] # selectedDateReviews[1]
  /\ collectionReviews[1] # groupedReviews[1]
  /\ selectedDateReviews[1] # groupedReviews[1]
  /\ filteredAndSortedReviews = collectionReviews[1]

\* Field values the AdvancedSearch form can hold.
SearchForms ==
  {[DefaultSearch EXCEPT !.searchText = t, !.filterRating = r,
                         !.filterUserType = u, !.dateRange = d,
                         !.minUsefulCount = m, !.hasReply = h] :
     t \in SearchTextInputs,
     r \in {All, <<"5">>},
     u \in {"all", "buyer"},
     d \in {[start |-> <<>>, end |-> <<>>],
            [start |-> <<"2","0","2","5","-","1","0","-","0","5">>, end |-> <<>>]},
     m \in {<<>>, <<"9">>},
     h \in {"all", "no"}}

\* Values of the advancedFilters state: none, or what the form hands over.
FilterSpecs == {Null} \cup {Some(FiltersOf(f)) : f \in SearchForms}

\* The members of the selection that is in effect.
ActiveOverride ==
  IF Populated(collectionReviews) THEN collectionReviews[1]
  ELSE IF Populated(selectedDateReviews) THEN selectedDateReviews[1]
  ELSE groupedReviews[1]

\* C2: while an override selection is in effect the displayed sequence is
\* that selection's members, and it stays so under every value of the
\* composed filter's predicates (filter spec and legacy rating).
C2_OverrideReplacesFilter ==
  AnyOverride =>
    /\ filteredAndSortedReviews = ActiveOverride
    /\ \A f \in FilterSpecs, r \in {All, <<"5">>} :
         FilteredAndSorted(reviews, sortBy, r, filterWord, f, groupedReviews,
                           selectedDateReviews, collectionReviews, now)
           = filteredAndSortedReviews

\* An override is in effect while the search text set in the form rejects one
\* of its members.
C2_Witness ==
  /\ AnyOverride
  /\ advancedFilters # Null
  /\ advancedFilters[1].searchText # <<>>
  /\ \E k \in 1..Len(filteredAndSortedReviews) :
       ~PassesAdvanced(filteredAndSortedReviews[k], advancedFilters[1], now)

\* C3: the displayed sequence is ordered by the active sort key in every
\* state, override selections included.
C3_OutputSorted ==
  \A i, j \in 1..Len(filteredAndSortedReviews) :
    i < j => Comparator(filteredAndSortedReviews[i], filteredAndSortedReviews[j],
                        sortBy, now) <= 0

\* C4: at most one of the three override selections is populated.
C4_AtMostOneOverride == Cardinality(PopulatedOverrides) <= 1

\* C5: right after a group is selected the displayed sequence is that
\* group's members, whatever the state before.
C5_GroupSelectionShown ==
  [][HandleGroupClick => filteredAndSortedReviews' = groupedReviews'[1]]_vars

-----------------------------------------------------------------------------
(* Properties of the groups ReviewGrouping shows (specification            *)
(* SpecGrouping).                                                          *)

SimilarityShown == showGrouping /\ groupingMode = "similarity"

RatingShown == showGrouping /\ groupingMode = "rating"

\* The places <<g, k>> of the members of a list of groups.
MemberPlaces(groups) ==
  UNION {{<<g, k>> : k \in 1..Len(groups[g].reviews)} : g \in 1..Len(groups)}

\* The places at which the review with the given source_url is a member.
PlacesOf(groups, url) ==
  {p \in MemberPlaces(groups) : groups[p[1]].reviews[p[2]].source_url = url}

MemberAt(groups, p) == groups[p[1]].reviews[p[2]]

MainTextOf(review) == extractMainText(review.review_text)

\* Each of the reviews is a member at no more than one place.
Disjoint(groups, revs) ==
  \A i \in 1..Len(revs) : Cardinality(PlacesOf(groups, revs[i].source_url)) <= 1

\* C6: no review is a member of two similarity groups, nor twice of one.
C6_GroupsDisjoint ==
  SimilarityShown => Disjoint(ShownGroups, filteredAndSortedReviews)

SimilarToOtherGroup(groups, threshold) ==
  \E p \in MemberPlaces(groups) :
    \E h \in 1..Len(groups) :
      /\ h # p[1]
      /\ SimilarityAtLeast(
           calculateSimilarity(groups[h].representative,
                               MainTextOf(MemberAt(groups, p))),
           threshold)

\* A member of one group is as similar as the threshold asks to the
\* representative of another group.
C6_Witness ==
  /\ SimilarityShown
  /\ SimilarToOtherGroup(ShownGroups, similarityThreshold)

\* The similarity groups of the shown reviews at threshold 100.
GroupsAtHundred == ReviewGroups(filteredAndSortedReviews, "similarity", 100)

SameLowerCasedText(groups) ==
  \A p, q \in MemberPlaces(groups) :
    p[1] = q[1] =>
      toLowerCase(MainTextOf(MemberAt(groups, p)))
        = toLowerCase(MainTextOf(MemberAt(groups, q)))

NoEmptyText(groups) ==
  \A p \in MemberPlaces(groups) : MainTextOf(MemberAt(groups, p)) # <<>>

\* C7: at threshold 100 the members of a similarity group have the same
\* lower-cased main text, and no review with an empty main text is a
\* member of a group, at 100 or at the threshold set.
C7_ExactAtHundred ==
  SimilarityShown =>
    /\ SameLowerCasedText(GroupsAtHundred)
    /\ NoEmptyText(GroupsAtHundred)
    /\ NoEmptyText(ShownGroups)

DifferentTextsTogether(groups) ==
  \E p, q \in MemberPlaces(groups) :
    /\ p[1] = q[1]
    /\ MemberAt(groups, p).review_text # MemberAt(groups, q).review_text

TwoEmptyTexts(revs) ==
  \E i, j \in 1..Len(revs) :
    /\ i < j
    /\ MainTextOf(revs[i]) = <<>>
    /\ MainTextOf(revs[j]) = <<>>

\* At threshold 100 a group holds two reviews whose texts differ in case
\* only, while two reviews with an empty main text are left out.
C7_Witness ==
  /\ SimilarityShown
  /\ DifferentTextsTogether(GroupsAtHundred)
  /\ TwoEmptyTexts(filteredAndSortedReviews)

SeededGroup(group, threshold) ==
  /\ group.count >= 2
  /\ group.count = Len(group.reviews)
  /\ group.representative = MainTextOf(group.reviews[1])
  /\ \A k \in 2..Len(group.reviews) :
       SimilarityAtLeast(
         calculateSimilarity(MainTextOf(group.reviews[1]),
                             MainTextOf(group.reviews[k])),
         threshold)

AllSeeded(groups, threshold) ==
  \A g \in 1..Len(groups) : SeededGroup(groups[g], threshold)

\* C8: a similarity group has at least two members, its count is the number
\* of its members, and every member after the first is as similar to the
\* first (the seed) as the threshold asks.
C8_GroupShape ==
  SimilarityShown => AllSeeded(ShownGroups, similarityThreshold)

DissimilarMembers(groups, threshold) ==
  \E g \in 1..Len(groups) :
    /\ groups[g].count >= 3
    /\ ~SimilarityAtLeast(
          calculateSimilarity(MainTextOf(groups[g].reviews[2]),
                              MainTextOf(groups[g].reviews[3])),
          threshold)

\* A group of three whose second and third members are less similar to each
\* other than the threshold asks.
C8_Witness ==
  /\ SimilarityShown
  /\ DissimilarMembers(ShownGroups, similarityThreshold)

RECURSIVE CountSum(_, _)
CountSum(groups, n) ==
  IF n = 0 THEN 0 ELSE CountSum(groups, n - 1) + groups[n].count

Partition(groups, revs) ==
  /\ \A i \in 1..Len(revs) :
       Cardinality(PlacesOf(groups, revs[i].source_url)) = 1
  /\ \A p, q \in MemberPlaces(groups) :
       p[1] = q[1] =>
         MemberAt(groups, p).star_rating = MemberAt(groups, q).star_rating
  /\ CountSum(groups, Len(groups)) = Len(revs)

\* C9: in rating mode every shown review is a member of exactly one group,
\* once; the members of a group have the same star_rating; the counts add
\* up to the number of shown reviews.
C9_RatingPartition ==
  RatingShown => Partition(ShownGroups, filteredAndSortedReviews)

SeveralRatings(groups) ==
  /\ Len(groups) >= 3
  /\ \E g \in 1..Len(groups) : groups[g].count >= 2

\* Three rating groups, one of them with several members.
C9_Witness ==
  /\ RatingShown
  /\ SeveralRatings(ShownGroups)

\* The numeric rating a group stands for, if it has one.
RatingOf(group) == parseInt(group.reviews[1].star_rating)

Descending(groups) ==
  \A g, h \in 1..Len(groups) :
    (g < h /\ RatingOf(groups[g]) # Null /\ RatingOf(groups[h]) # Null)
      => RatingOf(groups[g])[1] > RatingOf(groups[h])[1]

\* C10: the rating groups are shown in strictly descending order of their
\* numeric rating.
C10_RatingDescending ==
  RatingShown => Descending(ShownGroups)

FiveThenOne(groups) ==
  /\ Len(groups) = 2
  /\ groups[1].name = <<"5"," ","S","t","a","r","s">>
  /\ groups[1].count = 2
  /\ groups[2].name = <<"1"," ","S","t","a","r">>
  /\ groups[2].count = 3

\* Ratings 1, 1, 1, 5, 5 are shown as "5 Stars" with two members and then
\* "1 Star" with three.
C10_Witness ==
  /\ RatingShown
  /\ reviews = RatingExample
  /\ FiveThenOne(ShownGroups)

\* C11: with no review or a single review to group, the list of groups is
\* empty in every grouping mode.
C11_SmallInputNoGroups ==
  (showGrouping /\ Len(filteredAndSortedReviews) <= 1) => ShownGroups = <<>>

-----------------------------------------------------------------------------
(* ReviewGrouping on reviews that carry topics (specification SpecTopics). *)

\* Review texts with topics: "scam fee" carries scam and fees, "fee" carries
\* fees, "abcd" carries none, and "help" with a reply that says "scam"
\* carries support only, as the reply is not part of the main text.
TopicTexts ==
  << <<"s","c","a","m"," ","f","e","e">>,
     <<"f","e","e">>,
     <<"a","b","c","d">>,
     <<"h","e","l","p"," ","R","e","p","l","y"," ","f","r","o","m"," ",
       "F","i","v","e","r","r",":"," ","s","c","a","m">> >>

\* The corpora of up to MaxGroupInput reviews with these texts.
TopicCorpora ==
  UNION {{[i \in 1..n |->
             Review(i, <<"a","n","n">>, <<>>, <<"1">>, TopicTexts[p[i]], <<>>)] :
            p \in [1..n -> 1..Len(TopicTexts)]} : n \in 0..MaxGroupInput}

InitTopics ==
  /\ reviews \in TopicCorpora
  /\ Mounted

SpecTopics == InitTopics /\ [][NextGrouping]_vars

TopicShown == showGrouping /\ groupingMode = "topic"

\* The topic tags of a review, "other" standing for none.
TagsOf(review) ==
  IF extractTopics(MainTextOf(review)) = <<>> THEN {<<"o","t","h","e","r">>}
  ELSE {extractTopics(MainTextOf(review))[t] :
          t \in 1..Len(extractTopics(MainTextOf(review)))}

\* The ids of the groups the review with the given source_url is a member of.
GroupsOf(groups, url) ==
  {groups[g].id : g \in {h \in 1..Len(groups) :
                           \E k \in 1..Len(groups[h].reviews) :
                             groups[h].reviews[k].source_url = url}}

TopicBucketsOf(groups, revs) ==
  /\ \A i \in 1..Len(revs) : GroupsOf(groups, revs[i].source_url) = TagsOf(revs[i])
  /\ \A p \in MemberPlaces(groups) : PlacesOf(groups, MemberAt(groups, p).source_url)
                                       \cap {q \in MemberPlaces(groups) : q[1] = p[1]} = {p}
  /\ \A g \in 1..Len(groups) : groups[g].count = Len(groups[g].reviews)
  /\ \A g, h \in 1..Len(groups) : g < h => groups[g].count >= groups[h].count

\* C12: in topic mode a review is a member of the bucket of each topic tag
\* it carries, of "other" exactly when it carries none, and of no other
\* bucket, once in each; the buckets come in non-increasing order of count.
C12_TopicBuckets ==
  TopicShown => TopicBucketsOf(ShownGroups, filteredAndSortedReviews)

TwoTagsAndOther(groups, revs) ==
  /\ \E i \in 1..Len(revs) : Cardinality(GroupsOf(groups, revs[i].source_url)) >= 2
  /\ \E g \in 2..Len(groups) :
       /\ groups[g].id = <<"o","t","h","e","r">>
       /\ groups[g].reviews[1] = revs[1]
       /\ groups[1].count > groups[g].count

\* A review is a member of two topic buckets, and the "other" bucket, the
\* first one made, comes after a larger bucket.
C12_Witness ==
  /\ TopicShown
  /\ TwoTagsAndOther(ShownGroups, filteredAndSortedReviews)

-----------------------------------------------------------------------------
(* CalendarView on reviews of one day and of no readable date              *)
(* (specification SpecCalendar).                                           *)

\* Longest review sequence CalendarView is tried on.
MaxDayInput == 4

\* Ratings and dates of the reviews: Oct 3 with one, three and five stars,
\* and no date or a date the Date constructor cannot read.
DayProfiles ==
  << [rating |-> <<"1">>, date |-> <<"O","c","t"," ","3",","," ","2","0","2","5">>],
     [rating |-> <<"3">>, date |-> <<"O","c","t"," ","3",","," ","2","0","2","5">>],
     [rating |-> <<"5">>, date |-> <<"O","c","t"," ","3",","," ","2","0","2","5">>],
     [rating |-> <<"1">>, date |-> <<>>],
     [rating |-> <<"1">>, date |-> <<"s","o","o","n">>] >>

CalendarCorpora ==
  UNION {{[i \in 1..n |->
             Review(i, <<"a","n","n">>, DayProfiles[p[i]].date,
                    DayProfiles[p[i]].rating, <<"a","b","c","d">>, <<>>)] :
            p \in [1..n -> 1..Len(DayProfiles)]} : n \in 0..MaxDayInput}

InitCalendar ==
  /\ reviews \in CalendarCorpora
  /\ Mounted

NextCalendar ==
  \/ ToggleCalendar
  \/ SelectDate
  \/ ClearDate

SpecCalendar == InitCalendar /\ [][NextCalendar]_vars

\* The number of the members rated two stars or less; a rating that is no
\* number counts as 0.
LowRated(members) ==
  Cardinality({k \in 1..Len(members) :
                 OrZero(parseInt(members[k].star_rating)) <= 2})

CrisisExactly(days) ==
  \A d \in 1..Len(days) :
    days[d].isCrisis <=>
      (Len(days[d].reviews) >= 3
         /\ 2 * LowRated(days[d].reviews) > Len(days[d].reviews))

\* C13: a shown day is flagged crisis exactly when it has three reviews or
\* more and more than half of them are rated two stars or less.
C13_CrisisFlag == showCalendar => CrisisExactly(ShownDays)

HalfLowNotCrisis(days) ==
  \E d \in 1..Len(days) :
    /\ Len(days[d].reviews) = 4
    /\ LowRated(days[d].reviews) = 2
    /\ ~days[d].isCrisis

\* A day of four reviews, two of them low rated, is shown and not flagged.
C13_Witness == showCalendar /\ HalfLowNotCrisis(ShownDays)

NoEpochMember(days, clock) ==
  \A d \in 1..Len(days) :
    \A k \in 1..Len(days[d].reviews) :
      parseDate(days[d].reviews[k].date, clock) # Epoch

\* C14: no shown day has a member whose date normalizes to the epoch.
C14_NoEpochInCalendar == showCalendar => NoEpochMember(ShownDays, now)

-----------------------------------------------------------------------------
(* Dashboard.jsx, ExportTools.jsx and the split of a review card           *)
(* (Reviews.jsx parseReviewText).  A number that may be NaN is Null or     *)
(* Some(n).                                                                *)

\* text.substring(match).trim(), match being the result of text.search.
ReplyFrom(text, match) == trim(SubSeq(text, match + 1, Len(text)))

\* Dashboard.jsx lines 53-56.
ReplyAt(text, match) == IF match # -1 THEN Some(ReplyFrom(text, match)) ELSE Null

\* Dashboard.jsx lines 49-57.
extractReply(text) ==
  IF text = <<>> THEN Null ELSE ReplyAt(text, searchReplyPattern(text))

\* Dashboard.jsx lines 59-67, the same statements as extractMainText.
extractMainReview(text) ==
  IF text = <<>> THEN <<>> ELSE MainTextAt(text, searchReplyPattern(text))

\* Reviews.jsx lines 739-745.
ParsedAt(text, match) ==
  IF match # -1
  THEN [mainText |-> trim(substring0(text, match)),
        reply |-> Some(ReplyFrom(text, match))]
  ELSE [mainText |-> text, reply |-> Null]

\* Reviews.jsx lines 731-746.
parseReviewText(text) ==
  IF text = <<>> THEN [mainText |-> <<>>, reply |-> Null]
  ELSE ParsedAt(text, searchReplyPattern(text))

\* /\$\d+/.test(text)
HasAmount(text) == \E i \in 1..Len(text) : text[i] = "$" /\ IsDigitAt(text, i + 1)

\* /\d+/.test(text)
HasNumbers(text) == \E i \in 1..Len(text) : IsDigitAt(text, i)

\* The alternatives of /suggest|recommend|improve|better|should|could/i.
feedbackWords ==
  << <<"s","u","g","g","e","s","t">>, <<"r","e","c","o","m","m","e","n","d">>, <<"i","m","p","r","o","v","e">>,
     <<"b","e","t","t","e","r">>, <<"s","h","o","u","l","d">>, <<"c","o","u","l","d">> >>

\* Lines 151-154.
LengthScore(length) ==
  IF length > 500 THEN 30
  ELSE IF length > 200 THEN 20
  ELSE IF length > 100 THEN 10
  ELSE 0

\* Lines 157-166: the points for amounts, numbers, sentences and feedback.
ContentScore(text) ==
  (IF HasAmount(text) THEN 10 ELSE 0)
    + (IF HasNumbers(text) THEN 10 ELSE 0)
    + (IF Len(split(text, ".")) > 3 THEN 10 ELSE 0)
    + (IF SomeKeyword(toLowerCase(text), feedbackWords) THEN 20 ELSE 0)

\* Math.min(p * 2, 20) and Math.min(p, 100): NaN in, NaN out.
MinTimes(p, factor, cap) == IF p = Null THEN Null ELSE Some(Min(p[1] * factor, cap))

\* score += p
Plus(score, p) == IF p = Null THEN Null ELSE Some(score + p[1])

\* Lines 147-171 for the main text and the useful count of a review.
QualityOf(text, usefulCount) ==
  MinTimes(Plus(LengthScore(Len(text)) + ContentScore(text),
                MinTimes(parseInt(usefulCount), 2, 20)),
           1, 100)

calculateQualityScore(review) ==
  QualityOf(extractMainReview(review.review_text), review.useful_count)

\* Dashboard.jsx lines 176-183.
stopWords ==
  { <<"t","h","e">>, <<"a","n","d">>, <<"f","o","r">>, <<"a","r","e">>, <<"b","u","t">>, <<"n","o","t">>, <<"y","o","u">>, <<"a","l","l">>,
    <<"c","a","n">>, <<"h","e","r">>, <<"w","a","s">>, <<"o","n","e">>, <<"o","u","r">>, <<"o","u","t">>, <<"d","a","y">>, <<"g","e","t">>,
    <<"h","a","s">>, <<"h","i","m">>, <<"h","i","s">>, <<"h","o","w">>, <<"i","t","s">>, <<"m","a","y">>, <<"n","e","w">>, <<"n","o","w">>,
    <<"o","l","d">>, <<"s","e","e">>, <<"t","w","o">>, <<"w","h","o">>, <<"w","a","y">>, <<"u","s","e">>, <<"s","h","e">>, <<"h","a","d">>,
    <<"t","h","i","s">>, <<"t","h","a","t">>, <<"w","i","t","h">>, <<"f","r","o","m">>, <<"t","h","e","y">>, <<"t","h","e","m">>, <<"t","h","e","i","r">>,
    <<"t","h","e","r","e">>, <<"t","h","e","s","e">>, <<"t","h","o","s","e">>, <<"h","a","v","e">>, <<"b","e","e","n">>, <<"w","e","r","e">>, <<"w","h","a","t">>,
    <<"w","h","e","n">>, <<"w","h","e","r","e">>, <<"w","h","i","c","h">>, <<"w","h","i","l","e">>, <<"w","i","l","l">>, <<"w","o","u","l","d">>, <<"y","o","u","r">>,
    <<"a","b","o","u","t">>, <<"a","f","t","e","r">>, <<"b","e","f","o","r","e">>, <<"d","u","r","i","n","g">>, <<"f","i","v","e","r","r">>, <<"f","i","v","e","r">>,
    <<"p","l","a","t","f","o","r","m">>, <<"s","e","l","l","e","r">>, <<"b","u","y","e","r">>, <<"r","e","v","i","e","w">>, <<"r","e","v","i","e","w","s">> }

\* The characters \w matches.
IsWordChar(c) ==
  \/ c = "_"
  \/ \E k \in 1..Len(LowerChars) : LowerChars[k] = c \/ UpperChars[k] = c
  \/ \E d \in 1..Len(Digits) : Digits[d] = c

\* replace(/[^\w\s]/g, ' ')
Spaced(s) ==
  [i \in 1..Len(s) |-> IF IsWordChar(s[i]) \/ IsSpace(s[i]) THEN s[i] ELSE " "]

\* split(/\s+/): SplitSpacesAt is given the position of the first white
\* space, or 0.
RECURSIVE SplitSpaces(_)
SplitSpacesAt(s, i) ==
  IF i = 0 THEN <<s>>
  ELSE <<SubSeq(s, 1, i - 1)>> \o SplitSpaces(SubSeq(s, i + SpaceRun(s, i), Len(s)))

SplitSpaces(s) == SplitSpacesAt(s, FirstOf({i \in 1..Len(s) : IsSpace(s[i])}))

\* Line 190.
KeptWords(tokens, minLength) ==
  FilterAt(tokens, {k \in 1..Len(tokens) :
                      Len(tokens[k]) >= minLength /\ tokens[k] \notin stopWords})

\* Lines 186-190.
WordsInText(text, minLength) ==
  IF text = <<>> THEN <<>>
  ELSE KeptWords(SplitSpaces(Spaced(toLowerCase(text))), minLength)

\* The words lines 185-195 count, in the order they are met.
RECURSIVE WordsMet(_, _, _)
WordsMet(texts, minLength, k) ==
  IF k > Len(texts) THEN <<>>
  ELSE WordsInText(texts[k], minLength) \o WordsMet(texts, minLength, k + 1)

\* The object `words` once every word is counted: PushUnder keeps one mark
\* per occurrence under the word's key.
WordTally(met) == PushUnderEach(<<>>, met, 1)

\* Lines 197 and 200: the [word, count] pairs of the object's listing.
WordCounts(entries) ==
  [e \in 1..Len(entries) |->
     [word |-> entries[e].key, count |-> Len(entries[e].items)]]

\* Array.prototype.slice(0, n)
slice0(items, n) == SubSeq(items, 1, Min(n, Len(items)))

\* Dashboard.jsx lines 174-201.
calculateWordFrequency(texts, minLength) ==
  slice0(SortedByCount(WordCounts(ObjectEntries(
           WordTally(WordsMet(texts, minLength, 1))))), 50)

\* Dashboard.jsx lines 210-231: the fields the spread review gains.
Enhanced(review, mainText, reply) ==
  [mainText     |-> mainText,
   reply        |-> reply,
   hasReply     |-> reply # Null /\ reply[1] # <<>>,
   userType     |-> detectUserType(mainText),
   topics       |-> extractTopics(mainText),
   qualityScore |-> calculateQualityScore(review),
   textLength   |-> Len(mainText)] @@ review

enhancedReviews(revs) ==
  [k \in 1..Len(revs) |->
     Enhanced(revs[k], extractMainReview(revs[k].review_text),
              extractReply(revs[k].review_text))]

\* sum / n on numbers: NaN when the sum is NaN, and 0 / 0 is NaN (the sums
\* divided here are sums of n terms).  The quotient is kept as a fraction.
Quotient(sum, n) == IF sum = Null \/ n = 0 THEN Null ELSE Some(<<sum[1], n>>)

\* OrZeroRatio with NaN let through.
RatioOrNaN(q) == IF q = Null THEN Null ELSE q[1]

\* `q || 0` on a quotient: NaN and 0 both give 0.
OrZeroRatio(q) == IF q = Null \/ q[1][1] = 0 THEN <<0, 1>> ELSE q[1]

\* Lines 401-406: how many of the members have the rating r.
RatingCount(members, r) ==
  Cardinality({k \in 1..Len(members) : members[k].star_rating = NatToString(r)})

\* Lines 411-412: the reduce over the entries of data.ratings.  Line 405
\* leaves NaN under the key of a rating that is none of the five, and the
\* sum is NaN then.
WeightedSum(members) ==
  IF \E k \in 1..Len(members) :
       members[k].star_rating \notin {NatToString(r) : r \in 1..5}
  THEN Null
  ELSE Some(SumOf([r \in 1..5 |-> r * RatingCount(members, r)]))

\* Lines 408-414, for the reviews counted under one type.
UserTypeEntry(type, members) ==
  [type      |-> toUpperCase(SubSeq(type, 1, 1)) \o SubSeq(type, 2, Len(type)),
   total     |-> Len(members),
   avgRating |-> OrZeroRatio(Quotient(WeightedSum(members), Len(members)))]

userTypes == << <<"s","e","l","l","e","r">>, <<"b","u","y","e","r">>, <<"u","n","k","n","o","w","n">> >>

\* detectUserType gives its result as a TLA+ string.
TypeName(type) ==
  IF type = <<"s","e","l","l","e","r">> THEN "seller" ELSE IF type = <<"b","u","y","e","r">> THEN "buyer" ELSE "unknown"

\* Lines 395-414.
userTypeData(enhanced) ==
  [t \in 1..Len(userTypes) |->
     UserTypeEntry(userTypes[t],
                   FilterAt(enhanced, {k \in 1..Len(enhanced) :
                                         enhanced[k].userType = TypeName(userTypes[t])}))]

\* reduce((sum, r) => sum + parseInt(r.star_rating), 0) over the members
\* from position k on, after acc.
RECURSIVE RatingTotal(_, _, _)
RatingTotal(members, k, acc) ==
  IF k > Len(members) \/ acc = Null THEN acc
  ELSE RatingTotal(members, k + 1, Plus(acc[1], parseInt(members[k].star_rating)))

\* Lines 513-514.
HalfAverage(half) == OrZeroRatio(Quotient(RatingTotal(half, 1, Some(0)), Len(half)))

\* Lines 506-508.
sortedByDate(enhanced, clock) ==
  SortedBy(FilterAt(enhanced, {k \in 1..Len(enhanced) : enhanced[k].date # <<>>}),
           "date-asc", clock)

\* Lines 510-514.
HalfAverages(sorted) ==
  [firstHalfAvg  |-> HalfAverage(SubSeq(sorted, 1, Len(sorted) \div 2)),
   secondHalfAvg |-> HalfAverage(SubSeq(sorted, (Len(sorted) \div 2) + 1, Len(sorted)))]

\* The ticks the clock makes in a behaviour.
MaxDrift == 1

\* What `new Date()` can read in the n calls of parseDate that one pass over
\* the reviews makes, the pass starting at the given clock: each call reads
\* the clock anew, and the clock does not go back.
ClockReads(n, clock) ==
  {r \in [1..n -> clock..Max(clock, StartDay * TicksPerDay + MaxDrift)] :
     \A i \in 1..(n - 1) : r[i] <= r[i + 1]}

\* The clock after the pass.
ClockAfter(reads, clock) == IF reads = <<>> THEN clock ELSE reads[Len(reads)]

\* Dashboard.jsx lines 235-237: the date of each review and its day.
PassDates(revs, reads) == [k \in 1..Len(revs) |-> parseDate(revs[k].date, reads[k])]

PassDays(dates) == [k \in 1..Len(dates) |-> DateKey(dates[k])]

\* Dashboard.jsx lines 210-546, the parts of the memo kept here that no
\* date enters.
ChartStatic(enhanced) ==
  [enhancedReviews |-> enhanced,
   userTypeData    |-> userTypeData(enhanced),
   overallWordFreq |->
     slice0(calculateWordFrequency([k \in 1..Len(enhanced) |-> enhanced[k].mainText], 4),
            50)]

\* The memo with the parts made from dates; clockReads records what the
\* calls of line 236 read.
ChartOf(static, reads) ==
  [clockReads |-> reads,
   dates      |-> PassDates(static.enhancedReviews, reads),
   dateKeys   |-> PassDays(PassDates(static.enhancedReviews, reads))]
    @@ HalfAverages(sortedByDate(static.enhancedReviews, reads[Len(reads)]))
    @@ static

\* Dashboard.jsx lines 206-547, for n reviews.
ChartData(static, n, reads) == IF n = 0 THEN Null ELSE Some(ChartOf(static, reads))

\* The weeks of the days of the model, oldest first: the days of the week,
\* its Sunday as toISOString().split('T')[0] gives it (line 490), and what
\* toLocaleDateString('en-US', {month: 'short', day: 'numeric'}) makes of
\* that Sunday (line 498), with the day of the year the label names.  Day 0
\* is the epoch's Thursday; the days from -275 to -269 are the week of
\* Dec 29, 2024.
Weeks ==
  << [days |-> {0}, key |-> <<"1","9","6","9","-","1","2","-","2","8">>, label |-> <<"D","e","c"," ","2","8">>, dayOfYear |-> 362],
     [days |-> (-275)..(-269), key |-> <<"2","0","2","4","-","1","2","-","2","9">>, label |-> <<"D","e","c"," ","2","9">>, dayOfYear |-> 363],
     [days |-> ((-2)..4) \ {0}, key |-> <<"2","0","2","5","-","0","9","-","2","8">>, label |-> <<"S","e","p"," ","2","8">>, dayOfYear |-> 271],
     [days |-> 5..11, key |-> <<"2","0","2","5","-","1","0","-","0","5">>, label |-> <<"O","c","t"," ","5">>, dayOfYear |-> 278] >>

\* Lines 488-490: the key of the week an instant is in.
weekKey(date) == Weeks[CHOOSE w \in 1..Len(Weeks) : DateKey(date) \in Weeks[w].days].key

\* The place a week key has in Weeks.
WeekRank(key) == CHOOSE w \in 1..Len(Weeks) : Weeks[w].key = key

\* Lines 486-495: reviewsPerWeek after the first n reviews, as the entries
\* [key, items] of the object, one item for each count.
RECURSIVE reviewsPerWeek(_, _, _)
reviewsPerWeek(enhanced, clock, n) ==
  IF n = 0 THEN <<>>
  ELSE PushUnder(reviewsPerWeek(enhanced, clock, n - 1),
                 weekKey(parseDate(enhanced[n].date, clock)), 1)

\* Lines 497-500: the [week, count] of each entry, week being the label.
WeekLabels(entries) ==
  [e \in 1..Len(entries) |->
     [week |-> Weeks[WeekRank(entries[e].key)].label, count |-> Len(entries[e].items)]]

\* What `new Date(label)` makes of a label without a year is left to the
\* engine: a day of the year 2001, or an Invalid Date.
YearlessParsers == {"year2001", "invalid"}

\* new Date(label).getTime() in days, Null for NaN.
YearlessDate(label, parser) ==
  IF parser = "year2001"
  THEN Some(Weeks[CHOOSE w \in 1..Len(Weeks) : Weeks[w].label = label].dayOfYear)
  ELSE Null

\* Line 501: new Date(a.week) - new Date(b.week); sort takes NaN as 0.
WeekDifference(a, b) == IF a = Null \/ b = Null THEN 0 ELSE a[1] - b[1]

ByWeekLabel(items, parser) ==
  [p \in (1..Len(items)) \X (1..Len(items)) |->
     WeekDifference(YearlessDate(items[p[1]].week, parser),
                    YearlessDate(items[p[2]].week, parser))]

\* Array.prototype.slice(-n)
sliceLast(items, n) == SubSeq(items, Max(1, Len(items) - n + 1), Len(items))

SortedByWeekLabel(items, parser) == ArraySort(items, ByWeekLabel(items, parser))

\* Lines 484-502.
weeklyData(enhanced, clock, parser) ==
  sliceLast(SortedByWeekLabel(
              WeekLabels(ObjectEntries(reviewsPerWeek(enhanced, clock, Len(enhanced)))),
              parser),
            12)

\* The memo with its weekly series.
WithWeekly(chart, weekly) ==
  IF chart = Null THEN Null ELSE Some([weeklyData |-> weekly] @@ chart[1])

\* The digits of n, in the given number of places.
RECURSIVE Places(_, _)
Places(n, places) ==
  IF places = 0 THEN <<>>
  ELSE Places(n \div 10, places - 1) \o <<Digits[(n % 10) + 1]>>

\* Number.prototype.toFixed of num / den for num >= 0: the nearest number
\* with that many decimals, the larger one of two.  (The quotient is taken
\* exactly; the quotients met here have no tie that a double misses.)
toFixed(num, den, digits) ==
  NatToString(((2 * num * 10^digits + den) \div (2 * den)) \div 10^digits)
    \o <<".">>
    \o Places(((2 * num * 10^digits + den) \div (2 * den)) % 10^digits, digits)

\* ExportTools.jsx lines 90 and 92.
RatingsOrZero(revs) == [k \in 1..Len(revs) |-> OrZero(parseInt(revs[k].star_rating))]

\* ExportTools.jsx lines 93-95.
WithReply(revs) ==
  Cardinality({k \in 1..Len(revs) : hasReplyPattern(revs[k].review_text)})

\* ExportTools.jsx lines 106-110: the share of one rating.
Share(count, total) == IF total > 0 THEN toFixed(count * 100, total, 1) ELSE <<"0">>

\* ExportTools.jsx lines 83-113: the values put into the summary text.
SummaryOf(revs, rated, total) ==
  [total       |-> total,
   avgRating   |-> IF total > 0 THEN toFixed(SumOf(rated), total, 2) ELSE <<"0",".","0","0">>,
   replyRate   |-> IF total > 0 THEN toFixed(WithReply(revs) * 100, total, 1)
                   ELSE <<"0",".","0">>,
   shares      |-> [r \in 1..5 |->
                      Share(Cardinality({k \in 1..total : rated[k] = r}), total)],
   totalUseful |-> SumOf([k \in 1..total |-> OrZero(parseInt(revs[k].useful_count))])]

\* The length of the corpora Dashboard is tried on.
MaxDashInput == 2

\* The reviews Dashboard is tried on: relative, absolute, "Updated", absent
\* and unreadable dates; texts with one reply marker, with two, of white
\* space only, empty, with an amount, a feedback word and four sentences,
\* and with an all-digit word; useful counts that are absent, small and
\* above the cap of the engagement score.
DashProfiles ==
  << [date |-> <<"2"," ","d","a","y","s"," ","a","g","o">>, rating |-> <<"1">>,
      text |-> <<"s","c","a","m"," ","2","0","2","4">>, useful |-> <<"3">>],
     [date |-> <<"U","p","d","a","t","e","d"," ","O","c","t"," ","3",","," ","2","0","2","5">>, rating |-> <<"5">>,
      text |-> <<" ","a","b","c","d"," "," ","R","e","p","l","y"," ","f","r","o","m"," ","F","i","v","e","r","r",":"," ","p","a","i","d"," ","w","o","r","k">>, useful |-> <<>>],
     [date |-> <<>>, rating |-> <<"3">>,
      text |-> <<>>, useful |-> <<"1","2">>],
     [date |-> <<"s","o","o","n">>, rating |-> <<"1">>,
      text |-> <<"S","h","o","u","l","d"," ","p","a","y"," ","$","5","."," ","a","."," ","b","."," ","c">>, useful |-> <<"0">>],
     [date |-> <<"u","p","d","a","t","e","d"," "," ","1"," ","d","a","y"," ","a","g","o">>, rating |-> <<"2">>,
      text |-> <<"h","e","l","p"," ","R","e","p","l","y"," ","f","r","o","m"," ","F","i","v","e","r"," "," ","R","e","p","l","y"," ","f","r","o","m"," ","F","i","v","e","r","r",":"," ","l","a","t","e","r">>, useful |-> <<"3">>],
     [date |-> <<"O","c","t"," ","5",","," ","2","0","2","5">>, rating |-> <<"4">>,
      text |-> <<" "," ">>, useful |-> <<>>] >>

DashCorpora ==
  UNION {{[i \in 1..n |->
             Review(i, <<"a","n","n">>, DashProfiles[p[i]].date, DashProfiles[p[i]].rating,
                    DashProfiles[p[i]].text, DashProfiles[p[i]].useful)] :
            p \in [1..n -> 1..Len(DashProfiles)]} : n \in 0..MaxDashInput}

\* Dashboard is mounted: its memo is computed, parseDate reading the clock
\* at each of its calls.
MountDashboard(static) ==
  \E reads \in ClockReads(Len(reviews), now), parser \in YearlessParsers :
    /\ chartData' = WithWeekly(ChartData(static, Len(reviews), reads),
                               weeklyData(static.enhancedReviews, ClockAfter(reads, now), parser))
    /\ now' = ClockAfter(reads, now)

\* App.jsx lines 41 and 48: the Dashboard tab.  Reviews is unmounted and
\* what it held is discarded: its state takes the values the next mount
\* gives it, and its memo is empty until then.  Dashboard is mounted and
\* its memo computed.
ShowDashboard ==
  /\ activeTab = "reviews"
  /\ activeTab' = "dashboard"
  /\ MountDashboard(ChartStatic(enhancedReviews(reviews)))
  /\ sortBy' = "date-desc"
  /\ filterRating' = All
  /\ search' = DefaultSearch
  /\ advancedFilters' = Some(FiltersOf(DefaultSearch))
  /\ showGrouping' = FALSE
  /\ groupedReviews' = Null
  /\ showCalendar' = FALSE
  /\ selectedDateReviews' = Null
  /\ collectionReviews' = Null
  /\ showCollections' = FALSE
  /\ groupingMode' = "topic"
  /\ similarityThreshold' = 70
  /\ filteredAndSortedReviews' = <<>>
  /\ selectedReviews' = {}
  /\ showCreateForm' = FALSE
  /\ collectionName' = <<>>
  /\ savedSearches' = Reloaded(savedSearches)
  /\ dateRangeRef' = 0
  /\ UNCHANGED <<reviews, collections, summary, thrown>>

\* App.jsx lines 35 and 46: the Reviews tab.  Dashboard is unmounted and
\* Reviews mounted anew.
ShowReviews ==
  /\ activeTab = "dashboard"
  /\ activeTab' = "reviews"
  /\ chartData' = Null
  /\ UNCHANGED <<reviews, now, collections, summary, selectionVars, savedVars, sortBy, filterVars, overrideVars,
                 groupingVars, panelVars>>
  /\ Render

\* ExportTools.jsx lines 82-126 and 176; Reviews.jsx lines 178 and 825-829:
\* the button is there when Reviews shows a corpus that is not empty.
CopyMetricsSummary ==
  /\ activeTab = "reviews"
  /\ Len(reviews) > 0
  /\ summary' = Some(SummaryOf(filteredAndSortedReviews,
                               RatingsOrZero(filteredAndSortedReviews),
                               Len(filteredAndSortedReviews)))
  /\ UNCHANGED <<reviews, now, collections, activeTab, chartData, selectionVars, savedVars, sortBy, filterVars,
                 overrideVars, groupingVars, panelVars, filteredAndSortedReviews>>

\* Dashboard, and the summary of ExportTools, on each corpus of DashCorpora.
InitDashboard ==
  /\ reviews \in DashCorpora
  /\ Mounted

NextDashboard ==
  \/ ShowDashboard
  \/ ShowReviews
  \/ CopyMetricsSummary
  \/ (activeTab = "reviews" /\ \E text \in SearchTextInputs : SetSearchText(text))

SpecDashboard == InitDashboard /\ [][NextDashboard]_vars

-----------------------------------------------------------------------------
(* The date normalizer.                                                    *)

\* What each date string of DashProfiles is: a number of days ago, a day of
\* October 2025, or neither.
DateCases ==
  << [string |-> <<"2"," ","d","a","y","s"," ","a","g","o">>, daysAgo |-> Some(2), day |-> Null],
     [string |-> <<"u","p","d","a","t","e","d"," "," ","1"," ","d","a","y"," ","a","g","o">>, daysAgo |-> Some(1), day |-> Null],
     [string |-> <<"U","p","d","a","t","e","d"," ","O","c","t"," ","3",","," ","2","0","2","5">>, daysAgo |-> Null, day |-> Some(3)],
     [string |-> <<"O","c","t"," ","5",","," ","2","0","2","5">>, daysAgo |-> Null, day |-> Some(5)],
     [string |-> <<"s","o","o","n">>, daysAgo |-> Null, day |-> Null],
     [string |-> <<>>, daysAgo |-> Null, day |-> Null] >>

\* The instant a case stands for when the clock reads clock.
InstantOf(case, clock) ==
  IF case.daysAgo # Null THEN clock - case.daysAgo[1] * TicksPerDay
  ELSE IF case.day # Null THEN case.day[1] * TicksPerDay
  ELSE Epoch

\* Every date of the pass is the instant of the string's case.
DatesByCase(chart) ==
  \A k \in 1..Len(chart.dates) :
    \E c \in 1..Len(DateCases) :
      /\ DateCases[c].string = chart.enhancedReviews[k].date
      /\ chart.dates[k] = InstantOf(DateCases[c], chart.clockReads[k])

\* C15: parseDate gives an instant for every date string - the epoch for an
\* absent one, the instant of the rest for "Updated <rest>", the clock's
\* reading less N days for "<N> day(s) ago", the instant of a calendar date
\* the Date constructor reads, and the epoch for every other string.
C15_DateCases == chartData # Null => DatesByCase(chartData[1])

\* A pass that met a relative date after "updated", read while the clock had
\* moved on, and a calendar date after "Updated".
RelativeAndUpdated(chart) ==
  /\ \E k \in 1..Len(chart.dates) :
       /\ chart.enhancedReviews[k].date = <<"u","p","d","a","t","e","d"," "," ","1"," ","d","a","y"," ","a","g","o">>
       /\ chart.clockReads[k] > StartDay * TicksPerDay
  /\ \E k \in 1..Len(chart.dates) :
       chart.enhancedReviews[k].date = <<"U","p","d","a","t","e","d"," ","O","c","t"," ","3",","," ","2","0","2","5">>

C15_Witness == chartData # Null /\ RelativeAndUpdated(chartData[1])

\* Reviews of one pass that carry the same date string have the same
\* instant and the same day.
SameStringSameInstant(chart) ==
  \A i, j \in 1..Len(chart.dates) :
    chart.enhancedReviews[i].date = chart.enhancedReviews[j].date
      => /\ chart.dates[i] = chart.dates[j]
         /\ chart.dateKeys[i] = chart.dateKeys[j]

\* C16: within one pass the instant of a review is a function of its date
\* string alone - two reviews with the same date string, "N days ago"
\* included, get the same instant and fall into the same day bucket.
C16_SameStringSameInstant == chartData # Null => SameStringSameInstant(chartData[1])

-----------------------------------------------------------------------------
(* The split of a review text into the review and the operator's reply.    *)

\* The split of a review card, done again on the main text it gave, gives
\* that main text and no reply.
CardResplit(parsed) == parseReviewText(parsed.mainText) = [mainText |-> parsed.mainText, reply |-> Null]

\* The same of the split Dashboard makes.
ChartResplit(enhanced) ==
  \A k \in 1..Len(enhanced) :
    /\ extractMainReview(enhanced[k].mainText) = enhanced[k].mainText
    /\ extractReply(enhanced[k].mainText) = Null

\* C17: splitting the main text that a first split gave yields the same
\* main text and a null reply, for parseReviewText of the review cards and
\* for extractMainReview and extractReply of Dashboard.
C17_SplitIdempotent ==
  /\ \A k \in 1..Len(reviews) : CardResplit(parseReviewText(reviews[k].review_text))
  /\ chartData # Null => ChartResplit(chartData[1].enhancedReviews)

\* Texts the first split changes: one with white space around the review
\* and a reply, and one with two reply markers.
SplitTexts(enhanced) ==
  /\ \E k \in 1..Len(enhanced) :
       /\ enhanced[k].review_text = <<" ","a","b","c","d"," "," ","R","e","p","l","y"," ","f","r","o","m"," ","F","i","v","e","r","r",":"," ","p","a","i","d"," ","w","o","r","k">>
       /\ enhanced[k].mainText = <<"a","b","c","d">>
       /\ enhanced[k].reply = Some(<<"R","e","p","l","y"," ","f","r","o","m"," ","F","i","v","e","r","r",":"," ","p","a","i","d"," ","w","o","r","k">>)
  /\ \E k \in 1..Len(enhanced) :
       /\ enhanced[k].mainText = <<"h","e","l","p">>
       /\ enhanced[k].reply = Some(<<"R","e","p","l","y"," ","f","r","o","m"," ","F","i","v","e","r"," "," ","R","e","p","l","y"," ","f","r","o","m"," ","F","i","v","e","r","r",":"," ","l","a","t","e","r">>)
       /\ parseReviewText(enhanced[k].review_text).reply = enhanced[k].reply

C17_Witness == chartData # Null /\ SplitTexts(chartData[1].enhancedReviews)

-----------------------------------------------------------------------------
(* The quality score.                                                      *)

\* Every review of the chart has a number from 0 to 100 as its score.
ScoresInRange(enhanced) ==
  \A k \in 1..Len(enhanced) :
    /\ enhanced[k].qualityScore # Null
    /\ enhanced[k].qualityScore[1] \in 0..100

\* C18: the quality score of every review is an integer from 0 to 100,
\* also for an empty text and for a zero, empty or absent useful count.
C18_ScoreInRange == chartData # Null => ScoresInRange(chartData[1].enhancedReviews)

-----------------------------------------------------------------------------
(* Ratios with no members to divide by.                                    *)

Zero == <<0, 1>>

\* The number of the reviews that have a date: lines 506-511 halve them.
Dated(enhanced) == Cardinality({k \in 1..Len(enhanced) : enhanced[k].date # <<>>})

\* A user type without members and a half without members have the average
\* rating 0.
EmptyAveragesZero(chart) ==
  /\ \A t \in 1..Len(chart.userTypeData) :
       chart.userTypeData[t].total = 0 => chart.userTypeData[t].avgRating = Zero
  /\ Dated(chart.enhancedReviews) \div 2 = 0 => chart.firstHalfAvg = Zero
  /\ Dated(chart.enhancedReviews) = 0 => chart.secondHalfAvg = Zero

\* The summary of no reviews has zero as each of its ratios.
EmptySummaryZero(copied) ==
  copied.total = 0
    => /\ copied.avgRating = <<"0",".","0","0">>
       /\ copied.replyRate = <<"0",".","0">>
       /\ \A r \in 1..5 : copied.shares[r] = <<"0">>

\* C19: a ratio over nothing is 0, not NaN - the average rating of a user
\* type with no members, the average rating of an empty first or second
\* half, and the average rating and response rate of an empty filtered set.
C19_EmptyRatiosZero ==
  /\ chartData # Null => EmptyAveragesZero(chartData[1])
  /\ summary # Null => EmptySummaryZero(summary[1])

\* A chart with a user type that has members and one that has none, an
\* empty first half and a second half that is not empty.
SomeEmptySomeNot(chart) ==
  /\ \E t \in 1..Len(chart.userTypeData) : chart.userTypeData[t].total = 0
  /\ \E t \in 1..Len(chart.userTypeData) : chart.userTypeData[t].avgRating # Zero
  /\ Dated(chart.enhancedReviews) = 1
  /\ chart.firstHalfAvg = Zero
  /\ chart.secondHalfAvg # Zero

C19_Witness ==
  /\ chartData # Null
  /\ SomeEmptySomeNot(chartData[1])
  /\ summary # Null
  /\ summary[1].total = 0

-----------------------------------------------------------------------------
(* The word frequencies.                                                   *)

\* The words of the chart's main texts in the order they are met.
MetIn(chart) ==
  WordsMet([k \in 1..Len(chart.enhancedReviews) |-> chart.enhancedReviews[k].mainText],
           4, 1)

\* Where a word is met first.
FirstMet(met, word) == FirstOf({p \in 1..Len(met) : met[p] = word})

\* The frequencies have every word met once, by falling count, and words of
\* the same count in the order they were first met.
ByCountThenFirstMet(freq, met) ==
  /\ {freq[i].word : i \in 1..Len(freq)} = {met[p] : p \in 1..Len(met)}
  /\ \A i \in 1..Len(freq) :
       freq[i].count = Cardinality({p \in 1..Len(met) : met[p] = freq[i].word})
  /\ \A i, j \in 1..Len(freq) :
       i < j => \/ freq[i].count > freq[j].count
                \/ /\ freq[i].count = freq[j].count
                   /\ FirstMet(met, freq[i].word) < FirstMet(met, freq[j].word)

\* C20: the word frequencies are ordered by non-increasing count, and words
\* with equal counts in the order in which they were first met in the
\* texts, all-digit words such as "2024" included.
C20_TiesInFirstMetOrder ==
  chartData # Null => ByCountThenFirstMet(chartData[1].overallWordFreq, MetIn(chartData[1]))

-----------------------------------------------------------------------------
(* C28: an override that is set but has no members.                        *)

\* An override that is set and whose member list is empty, as null.
Emptied(x) == IF Populated(x) THEN x ELSE Null

SetButEmpty(x) == x # Null /\ Len(x[1]) = 0

\* C28: an override that is set with an empty member list is inactive: the
\* displayed list is what the memo yields with that override unset, so it
\* falls through to the next populated override and finally to the sorted
\* composed filter.
C28_EmptyOverrideInactive ==
  (SetButEmpty(collectionReviews) \/ SetButEmpty(selectedDateReviews) \/ SetButEmpty(groupedReviews)) =>
    /\ filteredAndSortedReviews =
         FilteredAndSorted(reviews, sortBy, filterRating, filterWord, advancedFilters,
                           Emptied(groupedReviews), Emptied(selectedDateReviews),
                           Emptied(collectionReviews), now)
    /\ (~Populated(selectedDateReviews) /\ ~Populated(groupedReviews)) =>
         filteredAndSortedReviews =
           SortedBy(ComposedFilter(reviews, advancedFilters, filterWord, filterRating, now), sortBy, now)

\* A collection naming no review of the corpus is loaded while the composed
\* filter lets reviews through: the list shown is not empty.
C28_Witness ==
  /\ SetButEmpty(collectionReviews)
  /\ ~Populated(selectedDateReviews)
  /\ ~Populated(groupedReviews)
  /\ Len(filteredAndSortedReviews) > 0

\* The same with a day selected under the empty collection.
C28_WitnessFallsToDate ==
  /\ SetButEmpty(collectionReviews)
  /\ Populated(selectedDateReviews)
  /\ filteredAndSortedReviews = selectedDateReviews[1]

-----------------------------------------------------------------------------
(* C30: similarity groups extend forward only.                             *)

\* The positions (1-based) the seed at index adds to its group when the
\* outer loop reaches it with the set processed.
AddedBy(revs, threshold, index, processed) ==
  IF index \in processed THEN {}
  ELSE SimilarTo(revs, threshold, index, extractMainText(revs[index + 1].review_text), processed)

AddedAt(revs, threshold, index) ==
  AddedBy(revs, threshold, index, SimilarityPass(revs, threshold, index).processed)

\* The indices the outer loop tried as seeds without a group coming of it.
FailedSeeds(revs, threshold) ==
  {index \in 0..(Len(revs) - 1) :
     /\ index \notin SimilarityPass(revs, threshold, index).processed
     /\ AddedAt(revs, threshold, index) = {}}

\* C30: in the similarity pass every review a seed adds to its group comes
\* after the seed in the input, and a review that was tried as a seed and
\* formed no group is not claimed by any later seed.
C30_SeedIsFirst ==
  /\ \A index \in 0..(Len(reviews) - 1) :
       \A o \in AddedAt(reviews, similarityThreshold, index) : o - 1 > index
  /\ FailedSeeds(reviews, similarityThreshold)
       \cap SimilarityPass(reviews, similarityThreshold, Len(reviews)).processed = {}

\* The similarity groups are shown, the first review was tried as a seed and
\* formed no group, and a later seed formed one.
C30_Witness ==
  /\ showGrouping
  /\ groupingMode = "similarity"
  /\ 0 \in FailedSeeds(reviews, similarityThreshold)
  /\ Len(similarityGroups(reviews, similarityThreshold)) > 0
  /\ \E index \in 1..(Len(reviews) - 1) :
       AddedAt(reviews, similarityThreshold, index) # {}

-----------------------------------------------------------------------------
(* C24: the weekly series.                                                 *)

\* The length of the corpora the weekly series is tried on.
MaxWeekInput == 3

\* Their dates: a day of the last week of 2024, two days of October 2025 in
\* different weeks, and a relative date.
WeekDates ==
  << <<"D","e","c"," ","3","0",","," ","2","0","2","4">>, <<"O","c","t"," ","3",","," ","2","0","2","5">>, <<"O","c","t"," ","5",","," ","2","0","2","5">>, <<"2"," ","d","a","y","s"," ","a","g","o">> >>

WeekCorpora ==
  UNION {{[i \in 1..n |-> Review(i, <<"a","n","n">>, WeekDates[p[i]], <<"4">>, <<"f","i","n","e">>, <<>>)] :
            p \in [1..n -> 1..Len(WeekDates)]} : n \in 0..MaxWeekInput}

\* Dashboard on each corpus of WeekCorpora.
InitWeekly ==
  /\ reviews \in WeekCorpora
  /\ Mounted

NextWeekly ==
  \/ ShowDashboard
  \/ ShowReviews

SpecWeekly == InitWeekly /\ [][NextWeekly]_vars

\* Comparator table of the weeks' own order, oldest first.
ByWeekRank(entries) ==
  [p \in (1..Len(entries)) \X (1..Len(entries)) |->
     WeekRank(entries[p[1]].key) - WeekRank(entries[p[2]].key)]

\* The last 12 of the week buckets in the order of the weeks, as the series
\* names them.
MostRecentWeeks(entries) ==
  sliceLast(WeekLabels(ArraySort(entries, ByWeekRank(entries))), 12)

WeekBuckets(chart) ==
  reviewsPerWeek(chart.enhancedReviews, chart.clockReads[Len(chart.clockReads)],
                 Len(chart.enhancedReviews))

\* C24: the weekly series holds the counts of the 12 most recent week
\* buckets of the data (all of them when there are fewer), oldest week
\* first, also when the reviews are of more than one calendar year.
C24_WeeklyChronological ==
  chartData # Null => chartData[1].weeklyData = MostRecentWeeks(WeekBuckets(chartData[1]))

-----------------------------------------------------------------------------
(* The filter form of AdvancedSearch on its own.                           *)

\* The length of the corpora the filter form is tried on.
MaxSearchInput == 3

\* Their reviews: unknown by its main text with a reply that has two buyer
\* keywords; a buyer with a reply; a seller without a reply, dated two days
\* ago; and one with a tie of keywords, an unreadable date and a useful
\* count that is no number.
SearchSample ==
  << Review(1, <<"a","n","n">>, <<"O","c","t"," ","3",","," ","2","0","2","5">>, <<"5">>, <<"a","b","c","d"," ","R","e","p","l","y"," ","f","r","o","m"," ","F","i","v","e","r","r",":"," ","p","a","i","d"," ","w","o","r","k">>, <<>>),
     Review(2, <<"b","o","b">>, <<"O","c","t"," ","5",","," ","2","0","2","5">>, <<"5">>, <<"p","a","i","d"," ","w","o","r","k"," ","R","e","p","l","y"," ","f","r","o","m"," ","F","i","v","e","r","r",":"," ","o","k">>, <<"3">>),
     Review(3, <<"p","a","i","d">>, <<"2"," ","d","a","y","s"," ","a","g","o">>, <<"1">>, <<"s","e","l","l","e","r"," ","f","e","e","s">>, <<"0">>),
     Review(4, <<"d","a","n">>, <<"s","o","o","n">>, <<"5">>, <<"p","a","i","d"," ","s","e","l","l","e","r">>, <<"x">>) >>

\* The first review alone, and the first MaxSearchInput reviews.
SearchCorpora == {SubSeq(SearchSample, 1, n) : n \in {1, Min(MaxSearchInput, Len(SearchSample))}}

\* What the user may pick in the form's selects, number input and check box.
FieldInputs ==
  [filterRating    |-> {All, <<"5">>},
   filterUserType  |-> {"all", "buyer"},
   hasReply        |-> {"all", "yes", "no"},
   wordCountFilter |-> {"all", "short"},
   minUsefulCount  |-> {<<>>, <<"2">>},
   searchInReplies |-> {FALSE, TRUE}]

SearchWords == {<<>>, <<"p","a","i","d">>}

DateInputs == {<<>>, <<"2","0","2","5","-","1","0","-","0","4">>}

InitSearch ==
  /\ reviews \in SearchCorpora
  /\ Mounted

NextSearch ==
  \/ \E text \in SearchWords : SetSearchText(text)
  \/ \E field \in DOMAIN FieldInputs : \E value \in FieldInputs[field] : SetField(field, value)
  \/ \E bound \in {"start", "end"} : \E value \in DateInputs : SetDateRange(bound, value)
  \/ ClearFilters

SpecSearch == InitSearch /\ [][NextSearch]_vars

-----------------------------------------------------------------------------
(* C21: the composed filter.                                               *)

\* The predicates of a filter spec that are active.
ActivePredicates(filters) ==
  {p \in {"searchText", "rating", "userType", "dateRange", "usefulCount", "reply"} :
     \/ p = "searchText" /\ filters.searchText # <<>>
     \/ p = "rating" /\ filters.filterRating # All
     \/ p = "userType" /\ filters.filterUserType # "all"
     \/ p = "dateRange" /\ (filters.dateRange.start # <<>> \/ filters.dateRange.end # <<>>)
     \/ p = "usefulCount" /\ filters.minUsefulCount # Null
     \/ p = "reply" /\ filters.hasReply # "all"}

\* The members of a sequence.
MembersOf(items) == {items[i] : i \in 1..Len(items)}

\* The day a date input names.
InputDay(string) == DateKey(NewDate(string)[1])

\* A review satisfies one predicate of the filter spec: the search text is
\* in its main text, in its reviewer's name or, replies included, in its
\* reply; its rating and the user type the filter finds for it are the ones
\* asked for; its day is within the range, both ends included; its useful
\* count, 0 when it is no number, is at least the minimum; it has a reply or
\* has none, as asked for.
Satisfies(review, parsed, filters, p, clock) ==
  CASE p = "searchText" ->
         \/ includes(toLowerCase(parsed.mainText), toLowerCase(filters.searchText))
         \/ includes(toLowerCase(review.reviewer_name), toLowerCase(filters.searchText))
         \/ /\ filters.searchInReplies
            /\ parsed.reply # Null
            /\ includes(toLowerCase(parsed.reply[1]), toLowerCase(filters.searchText))
    [] p = "rating" -> review.star_rating = filters.filterRating
    [] p = "userType" -> detectUserType(review.review_text) = filters.filterUserType
    [] p = "dateRange" ->
         /\ filters.dateRange.start # <<>>
              => DateKey(parseDate(review.date, clock)) >= InputDay(filters.dateRange.start)
         /\ filters.dateRange.end # <<>>
              => DateKey(parseDate(review.date, clock)) <= InputDay(filters.dateRange.end)
    [] p = "usefulCount" ->
         OrZero(parseInt(review.useful_count)) >= filters.minUsefulCount[1][1]
    [] p = "reply" -> (filters.hasReply = "yes") = (parsed.reply # Null)

\* The positions of the reviews that satisfy every predicate of the set.
SatisfyingAll(revs, filters, predicates, clock) ==
  {i \in 1..Len(revs) :
     \A p \in predicates :
       Satisfies(revs[i], parseReviewText(revs[i].review_text), filters, p, clock)}

NoOverride ==
  /\ ~Populated(collectionReviews)
  /\ ~Populated(selectedDateReviews)
  /\ ~Populated(groupedReviews)

\* C21: with no override active and a filter spec applied, the reviews shown
\* are exactly the reviews that satisfy every active predicate of the spec,
\* in the order of the sort key; nothing is shown that is not in the input
\* and no review more often than it is there; a predicate that is not
\* active excludes nothing; and with every predicate at its default all the
\* reviews are shown.
C21_ComposedFilter ==
  (NoOverride /\ advancedFilters # Null) =>
    /\ filteredAndSortedReviews =
         SortedBy(FilterAt(reviews, SatisfyingAll(reviews, advancedFilters[1],
                                                  ActivePredicates(advancedFilters[1]), now)),
                  sortBy, now)
    /\ \A r \in MembersOf(filteredAndSortedReviews) :
         Cardinality({i \in 1..Len(filteredAndSortedReviews) : filteredAndSortedReviews[i] = r})
           <= Cardinality({i \in 1..Len(reviews) : reviews[i] = r})
    /\ ActivePredicates(advancedFilters[1]) = {}
         => MembersOf(filteredAndSortedReviews) = MembersOf(reviews)
              /\ Len(filteredAndSortedReviews) = Len(reviews)

\* Four predicates are active together, a review passes them all and
\* another does not.
C21_Witness ==
  /\ NoOverride
  /\ advancedFilters # Null
  /\ Cardinality(ActivePredicates(advancedFilters[1])) >= 4
  /\ Len(filteredAndSortedReviews) > 0
  /\ Len(filteredAndSortedReviews) < Len(reviews)

-----------------------------------------------------------------------------
(* C25: the user type the filter matches.                                  *)

\* The positions of the reviews whose user type in the aggregation pipeline
\* (Dashboard.jsx lines 210-214, on the main text) is the one asked for.
OfUserType(enhanced, userType) == {i \in 1..Len(enhanced) : enhanced[i].userType = userType}

\* C25: when the user-type predicate is active, the reviews shown are the
\* reviews that pass the other active predicates and whose user type, as the
\* classifier finds it on the main text without the operator's reply, is the
\* one asked for; keywords of the reply alone change nothing.
C25_UserTypeOfMainText ==
  (NoOverride /\ advancedFilters # Null /\ advancedFilters[1].filterUserType # "all") =>
    filteredAndSortedReviews =
      SortedBy(FilterAt(reviews,
                        SatisfyingAll(reviews, advancedFilters[1],
                                      ActivePredicates(advancedFilters[1]) \ {"userType"}, now)
                          \cap OfUserType(enhancedReviews(reviews),
                                          advancedFilters[1].filterUserType)),
               sortBy, now)

-----------------------------------------------------------------------------
(* C29: the Word Count select.                                             *)

WordCountChoices == {"all", "short", "medium", "large"}

\* The memo for the applied filter spec with another word count choice.
WithWordCount(choice) ==
  FilteredAndSorted(reviews, sortBy, filterRating, filterWord,
                    Some([advancedFilters[1] EXCEPT !.wordCountFilter = choice]),
                    groupedReviews, selectedDateReviews, collectionReviews, now)

\* C29: the word count choice of the filter spec has no effect: whatever
\* the other fields are, a filter spec that differs from the applied one in
\* wordCountFilter alone gives the same reviews in the same order.
C29_WordCountIgnored ==
  advancedFilters # Null =>
    \A choice \in WordCountChoices : WithWordCount(choice) = filteredAndSortedReviews

\* Word Count is set to "short", other predicates are active and a review
\* of more than one word is shown.
C29_Witness ==
  /\ advancedFilters # Null
  /\ advancedFilters[1].wordCountFilter = "short"
  /\ Cardinality(ActivePredicates(advancedFilters[1])) >= 2
  /\ Len(filteredAndSortedReviews) > 0
  /\ Len(filteredAndSortedReviews) < Len(reviews)

-----------------------------------------------------------------------------
(* AdvancedSearch: the saved searches.                                     *)

\* The saved searches kept at most.
MaxSaved == 1

\* The number of the dateRange object a new saved search holds: the form's
\* object, given the first number no saved search has when none holds it yet.
SharedRef(saved, ref) ==
  IF ref # 0 THEN ref
  ELSE CHOOSE n \in 1..(Len(saved) + 1) :
         /\ \A i \in 1..Len(saved) : saved[i].ref # n
         /\ \A m \in 1..(n - 1) : \E i \in 1..Len(saved) : saved[i].ref = m

\* An id no saved search has (Date.now() at line 98; the prompt of line 94
\* keeps two saves apart).
NewSearchId(saved) ==
  CHOOSE n \in 1..(Len(saved) + 1) : \A i \in 1..Len(saved) : saved[i].id # n

\* AdvancedSearch.jsx lines 93-119: name is what the prompt returns; the
\* record holds the form's field values and its dateRange object.
saveCurrentSearch(name) ==
  /\ name # <<>>
  /\ Len(savedSearches) < MaxSaved
  /\ savedSearches' =
       Append(savedSearches,
              [id |-> NewSearchId(savedSearches), name |-> name, filters |-> search,
               ref |-> SharedRef(savedSearches, dateRangeRef)])
  /\ dateRangeRef' = SharedRef(savedSearches, dateRangeRef)
  /\ UNCHANGED <<reviews, now, collections, dashboardVars, selectionVars, thrown, sortBy, filterVars,
                 overrideVars, groupingVars, panelVars, filteredAndSortedReviews>>

\* `p || d` on a string kept as a sequence, and on one kept as a TLA+ string.
OrDefault(p, d) == IF p = <<>> THEN d ELSE p

OrChoice(p, d) == IF p = "" THEN d ELSE p

\* Lines 122-129: the field values loadSavedSearch sets.
LoadedFields(filters) ==
  [searchText      |-> OrDefault(filters.searchText, <<>>),
   filterRating    |-> OrDefault(filters.filterRating, All),
   filterUserType  |-> OrChoice(filters.filterUserType, "all"),
   dateRange       |-> filters.dateRange,
   searchInReplies |-> filters.searchInReplies,
   minUsefulCount  |-> OrDefault(filters.minUsefulCount, <<>>),
   hasReply        |-> OrChoice(filters.hasReply, "all"),
   wordCountFilter |-> OrChoice(filters.wordCountFilter, "all")]

\* Lines 122-129 and 152-167: the setters are given the loaded values, and
\* the effect runs when one of them is not the value the form already has
\* (for dateRange: not the object it already has).
LoadFields(fields, ref) ==
  /\ search' = fields
  /\ dateRangeRef' = ref
  /\ advancedFilters' =
       IF fields # search \/ ref # dateRangeRef THEN Some(FiltersOf(fields))
       ELSE advancedFilters
  /\ UNCHANGED <<reviews, now, collections, dashboardVars, selectionVars, savedSearches, thrown,
                 sortBy, filterRating, overrideVars, groupingVars, panelVars>>
  /\ Render

\* Line 122 on a record that has no filters: the TypeError ends the handler.
LoadThrows ==
  /\ thrown' = "handler"
  /\ UNCHANGED <<reviews, now, collections, dashboardVars, selectionVars, savedSearches,
                 dateRangeRef, sortBy, filterVars, overrideVars, groupingVars, panelVars,
                 filteredAndSortedReviews>>

\* AdvancedSearch.jsx lines 121-132 and 308.
loadSavedSearch(i) ==
  /\ thrown # "render"
  /\ IF "filters" \in DOMAIN savedSearches[i]
     THEN LoadFields(LoadedFields(savedSearches[i].filters), savedSearches[i].ref)
     ELSE LoadThrows

\* The saved searches left when those of an id are deleted.
WithoutId(saved, id) == FilterAt(saved, {i \in 1..Len(saved) : saved[i].id # id})

\* AdvancedSearch.jsx lines 134-138 and 314.  The form's dateRange object is
\* numbered 0 again when no saved search holds it any more.
deleteSavedSearch(i) ==
  /\ thrown # "render"
  /\ savedSearches' = WithoutId(savedSearches, savedSearches[i].id)
  /\ dateRangeRef' =
       IF \E k \in 1..Len(savedSearches) :
            /\ savedSearches[k].id # savedSearches[i].id
            /\ savedSearches[k].ref = dateRangeRef
       THEN dateRangeRef ELSE 0
  /\ UNCHANGED <<reviews, now, collections, dashboardVars, selectionVars, thrown, sortBy, filterVars,
                 overrideVars, groupingVars, panelVars, filteredAndSortedReviews>>

\* What the user may set in the form while searches are saved and loaded.
SavedFieldInputs ==
  [minUsefulCount  |-> {<<>>, <<"0">>},
   searchInReplies |-> {FALSE, TRUE}]

InitSaved ==
  /\ reviews \in SearchCorpora
  /\ Mounted

NextSaved ==
  \/ \E text \in SearchWords : SetSearchText(text)
  \/ \E field \in DOMAIN SavedFieldInputs : \E value \in SavedFieldInputs[field] : SetField(field, value)
  \/ ClearFilters
  \/ ClearSearchBadge
  \/ \E rating \in {All, <<"5">>} : SetFilterRating(rating)
  \/ saveCurrentSearch(<<"x">>)
  \/ \E i \in 1..Len(savedSearches) : loadSavedSearch(i)
  \/ \E i \in 1..Len(savedSearches) : deleteSavedSearch(i)

SpecSaved == InitSaved /\ [][NextSaved]_vars

-----------------------------------------------------------------------------
(* C22: the round trip of a saved search.                                  *)

\* The reviews the saved filter spec lets through, in the order of the sort
\* key: what was shown when the search was saved with its spec applied.
ResultOf(filters) ==
  SortedBy(ComposedFilter(reviews, Some(FiltersOf(filters)), filterWord, filterRating, now),
           sortBy, now)

\* The form is as loadSavedSearch leaves it for the saved search i: every
\* state a load of i ends in is such a state, and a load of i in such a
\* state changes nothing.
JustLoaded(i) ==
  /\ "filters" \in DOMAIN savedSearches[i]
  /\ search = LoadedFields(savedSearches[i].filters)
  /\ dateRangeRef = savedSearches[i].ref

\* C22: whatever was changed or cleared since a search was saved, once it
\* is loaded the saved filter spec is applied again: on the same reviews and
\* with the same sort key the reviews shown are those the saved spec lets
\* through, in the same order, for every combination of field values, a
\* minimum useful count of 0 and search-in-replies off included.
C22_SavedSearchRoundTrip ==
  \A i \in 1..Len(savedSearches) :
    (JustLoaded(i) /\ NoOverride)
      => filteredAndSortedReviews = ResultOf(savedSearches[i].filters)


-----------------------------------------------------------------------------
(* C27: the search badge's clear button and the legacy filters.            *)

\* The reviews the legacy word and rating let through, in the order of the
\* sort key.
LegacyResult(word, rating) ==
  SortedBy(FilterAt(reviews, {i \in 1..Len(reviews) : PassesLegacy(reviews[i], word, rating)}),
           sortBy, now)

LegacyWords == {Null, Some(<<"p", "a", "i", "d">>)}

LegacyRatings == {All, <<"1">>, <<"5">>}

\* The applied spec becomes null only by a step that leaves every field of
\* the form as it is.
C27_ClearKeepsFields ==
  (advancedFilters # Null /\ advancedFilters' = Null)
    => (search' = search /\ dateRangeRef' = dateRangeRef)

\* A null applied spec stays null until a field of the form changes.
C27_NullUntilFieldChange ==
  (advancedFilters = Null /\ advancedFilters' # Null)
    => (search' # search \/ dateRangeRef' # dateRangeRef)

\* While the applied spec is null the reviews shown are those of the legacy
\* filters alone, whatever the fields of the form hold.
C27_NullAppliesLegacy ==
  (advancedFilters = Null /\ NoOverride)
    => filteredAndSortedReviews = LegacyResult(filterWord, filterRating)

\* While a spec is applied no legacy word or rating changes the reviews shown.
C27_AppliedIgnoresLegacy ==
  advancedFilters # Null
    => \A word \in LegacyWords : \A rating \in LegacyRatings :
         FilteredAndSorted(reviews, sortBy, rating, word, advancedFilters, groupedReviews,
                           selectedDateReviews, collectionReviews, now)
           = filteredAndSortedReviews

\* C27: the search badge's clear button sets the applied filter spec to null
\* and leaves the field values of the form alone; from then until a field
\* of the form changes the spec stays null and the reviews shown are those
\* the legacy word and rating filters let through, the fields being ignored;
\* in every state where a spec is applied the legacy word and rating have no
\* effect on the reviews shown.
C27_BadgeClearAndLegacy ==
  /\ [][C27_ClearKeepsFields /\ C27_NullUntilFieldChange]_vars
  /\ [](C27_NullAppliesLegacy /\ C27_AppliedIgnoresLegacy)

\* The badge was cleared with a search text still in the form and a legacy
\* rating chosen: the reviews shown are not those the fields would select.
C27_Witness ==
  /\ advancedFilters = Null
  /\ search.searchText # <<>>
  /\ filterRating # All
  /\ Len(reviews) > 1
  /\ filteredAndSortedReviews # <<>>
  /\ filteredAndSortedReviews # ResultOf(search)
  /\ filteredAndSortedReviews # reviews

-----------------------------------------------------------------------------
(* The selection, the Collections panel and what is persisted.             *)

\* Collections of which the model lets createCollection make no more.
MaxCollections == 3

\* A checkbox on every review shown, whatever the selection.
CheckboxShownAlways(selected) == TRUE

\* Reviews.jsx lines 999 and 1121: a review's checkbox is rendered.
CheckboxShown(selected) == selected # {}

\* The controls that act on the selection and on the list of collections.
PanelControls ==
  {"review-checkbox", "clear-selection", "create-collection-btn", "collection-name-input",
   "btn-primary", "btn-secondary", "delete"}

\* The control is on the page and takes a click or a key: the checkboxes and
\* Clear Selection of Reviews.jsx lines 883-890 and 999-1015, the disabled
\* attribute of Collections.jsx line 83, the form of lines 89-115 and the
\* list of lines 117-148.
Rendered(control) ==
  CASE control = "review-checkbox" ->
         CheckboxShown(selectedReviews) /\ filteredAndSortedReviews # <<>>
    [] control = "clear-selection" -> selectedReviews # {}
    [] control = "create-collection-btn" -> showCollections /\ selectedReviews # {}
    [] control = "delete" -> showCollections /\ collections # <<>>
    [] OTHER -> showCollections /\ showCreateForm

\* Reviews.jsx lines 1004-1011: the checkbox of a review is ticked when the
\* review is not selected and unticked when it is.
Ticked(selected, reviewId) ==
  IF reviewId \in selected THEN selected \ {reviewId} ELSE selected \cup {reviewId}

\* Array.from(selectedReviews): the ids in some order, each once.
ArrayFrom(selected) ==
  {ids \in [1..Cardinality(selected) -> selected] : \A x \in selected : \E k \in DOMAIN ids : ids[k] = x}

NewCollectionId(saved) ==
  CHOOSE n \in 1..(Len(saved) + 1) : \A i \in 1..Len(saved) : saved[i].id # n

\* Collections.jsx lines 27-45.
createCollection(reviewIds) ==
  IF trim(collectionName) = <<>> \/ selectedReviews = {} \/ Len(collections) >= MaxCollections
  THEN UNCHANGED <<collections, collectionName, showCreateForm>>
  ELSE /\ collections' = Append(collections, [id |-> NewCollectionId(collections),
                                               name |-> trim(collectionName),
                                               reviewIds |-> reviewIds])
       /\ collectionName' = <<>>
       /\ showCreateForm' = FALSE

\* Collections.jsx lines 47-52; confirmed is the answer to window.confirm.
deleteCollection(id, confirmed) ==
  IF confirmed
  THEN FilterAt(collections, {c \in 1..Len(collections) : collections[c].id # id})
  ELSE collections

\* A click on the control, or a text typed into it.  i is the place of the
\* review whose checkbox it is, or of the collection whose Delete button it
\* is.
UseControl(control, i, text, confirmed) ==
  /\ thrown # "render"
  /\ Rendered(control)
  /\ control = "review-checkbox" => i \in 1..Len(filteredAndSortedReviews)
  /\ control = "delete" => i \in 1..Len(collections)
  /\ selectedReviews' =
       IF control = "review-checkbox"
       THEN Ticked(selectedReviews, filteredAndSortedReviews[i].source_url)
       ELSE IF control = "clear-selection" THEN {} ELSE selectedReviews
  /\ IF control = "btn-primary"
     THEN \E reviewIds \in ArrayFrom(selectedReviews) : createCollection(reviewIds)
     ELSE /\ collections' =
               IF control = "delete" THEN deleteCollection(collections[i].id, confirmed)
               ELSE collections
          /\ showCreateForm' =
               IF control = "create-collection-btn" THEN ~showCreateForm
               ELSE IF control = "btn-secondary" THEN FALSE ELSE showCreateForm
          /\ collectionName' =
               IF control = "collection-name-input" THEN text
               ELSE IF control = "btn-secondary" THEN <<>> ELSE collectionName
  /\ UNCHANGED <<reviews, now, dashboardVars, savedVars, sortBy, filterVars, overrideVars,
                 groupingVars, panelVars, filteredAndSortedReviews>>

\* AdvancedSearch.jsx lines 66-75 and Collections.jsx lines 10-19: the list
\* of a text that parses; a text that does not parse leaves the list empty.
ParsedOrEmpty(stored) == IF stored.parses THEN stored.records ELSE <<>>

\* A saved search with a filter spec and one without.
SearchWithFilters ==
  [id |-> 1, name |-> <<"x">>, ref |-> 0,
   filters |-> [DefaultSearch EXCEPT !.searchText = <<"p", "a", "i", "d">>]]

SearchWithoutFilters == [id |-> 2, name |-> <<"y">>, ref |-> 0]

\* A collection without reviewIds.
CollectionWithoutIds == [id |-> 3, name |-> <<"m">>]

\* What localStorage may hold under review_saved_searches.
PersistedSearches ==
  {[parses |-> FALSE, records |-> <<>>],
   [parses |-> TRUE, records |-> <<>>],
   [parses |-> TRUE, records |-> <<SearchWithFilters>>],
   [parses |-> TRUE, records |-> <<SearchWithFilters, SearchWithoutFilters>>],
   [parses |-> TRUE, records |-> <<SearchWithoutFilters, SearchWithFilters>>]}

\* What localStorage may hold under review_collections.
PersistedCollections ==
  {[parses |-> FALSE, records |-> <<>>],
   [parses |-> TRUE, records |-> StoredCollections],
   [parses |-> TRUE, records |-> <<StoredCollections[1], CollectionWithoutIds, StoredCollections[2]>>]}

NameInputs == {<<>>, <<"n">>}

\* The places of the reviews shown and of the collections listed.
ControlPlaces == 1..(Len(filteredAndSortedReviews) + Len(collections))

InitCollections ==
  /\ reviews = Corpus
  /\ \E storedCollections \in PersistedCollections : \E storedSearches \in PersistedSearches :
       MountedWith(ParsedOrEmpty(storedCollections), ParsedOrEmpty(storedSearches))

NextCollections ==
  \/ ToggleCollections
  \/ \E c \in 1..Len(collections) : LoadCollection(c)
  \/ ClearCollection
  \/ \E control \in PanelControls : \E i \in ControlPlaces : \E text \in NameInputs : \E confirmed \in BOOLEAN : UseControl(control, i, text, confirmed)
  \/ \E i \in 1..Len(savedSearches) : loadSavedSearch(i)
  \/ \E i \in 1..Len(savedSearches) : deleteSavedSearch(i)

SpecCollections == InitCollections /\ [][NextCollections]_vars

-----------------------------------------------------------------------------
(* C26: the selection stays empty.                                         *)

\* The list after the step is the list before it with some records removed.
OnlyRemoved ==
  \E keep \in SUBSET (1..Len(collections)) : collections' = FilterAt(collections, keep)

\* C26: no sequence of events makes the selection non-empty, so that the
\* form of the Collections panel never opens, no name is typed into it, and
\* createCollection appends nothing: the list of collections changes only by
\* losing records, and so holds only records that were loaded.
C26_SelectionStaysEmpty ==
  /\ [](selectedReviews = {} /\ ~showCreateForm /\ collectionName = <<>>)
  /\ [][OnlyRemoved]_vars

\* The panel was opened, a collection of the list loaded, the panel opened
\* again and the first collection deleted.
C26_Witness ==
  /\ thrown = ""
  /\ showCollections
  /\ Populated(collectionReviews)
  /\ Len(collections) = 1
  /\ collections[1].name = <<"b">>
  /\ selectedReviews = {}

-----------------------------------------------------------------------------
(* C23: malformed persisted records.                                       *)

\* C23: the lists loaded from localStorage hold no record without a filter
\* spec and no collection without reviewIds, such records having been left
\* out when the lists were loaded, and no load or select of a listed record
\* and no rendering of a list throws.
C23_MalformedSkipped ==
  /\ \A i \in 1..Len(savedSearches) : "filters" \in DOMAIN savedSearches[i]
  /\ \A c \in 1..Len(collections) : Listable(collections[c])
  /\ thrown = ""

=============================================================================
